---- MODULE Spec2Model ----
(***************************************************************************)
(* Model of the vision-agent control loop (src/src/agent.ts, runAgent at   *)
(* line 3912), its tool executors (tools/js.ts, tools/drag.ts,             *)
(* tools/hover.ts), the diff engine (differ.ts) and the step-indexed       *)
(* runner (runAgent/runStep/solveStep of the skill-based agent).           *)
(***************************************************************************)
EXTENDS Integers, Sequences, FiniteSets, TLC

(***************************************************************************)
(* Bounds of the model                                                     *)
(***************************************************************************)
\* options.maxSteps of the modelled run
MaxSteps == 2
\* options.maxToolCalls of the modelled run
MaxToolCalls == 4
\* the loop indices the step-indexed runAgent goes through (30 in the code)
MaxRunSteps == 2

\* the largest in-range step number a page of the model displays
MaxPageStep == 3
\* seconds of wall-clock time that pass in one Tick
TickSeconds == 100
MaxElements == 2
MaxPopups == 1
MaxAttempts == 1
SolveTickMs == 5000
\* the controls of one kind on a page a skill is run on
MaxTargets == 2

(***************************************************************************)
(* Program constants                                                       *)
(***************************************************************************)
DetectorMaxStep == 30
GlobalTimeBudgetS == 295
StepTimeBudgetS == 30
hardSkipCallThreshold == 6
SubmittedExtraCalls == 2
TierBThreshold == 8
TierCThreshold == 12
NoOpWindowSize == 3
MaxModelFailures == 3
MaxInteractiveElements == 50
STEP_DEADLINE_MS == 9000
MAX_STEP_ATTEMPTS == 5
MAX_SCOUT_ACTIONS == 12
SCROLL_SWEEPS == 5
RADIO_BRUTEFORCE_LIMIT == 8
DOM_SCORE_THRESHOLD == 50
SummaryMaxModified == 40
PatternMaxLen == 320
CompletionWatermark == 25

\* The modelled run: runAgent's options and what the run's environment
\* (the site, the browser, the Oracle) can do. It never changes during a run.
VARIABLE world

\* a detector's null result, and the null of a nullable step variable
NoStep == 0

Max(a, b) == IF a >= b THEN a ELSE b
Min(a, b) == IF a <= b THEN a ELSE b

(***************************************************************************)
(* Scripts and their normalized signature                                  *)
(***************************************************************************)
\* characters of a script: two letters, the two whitespace characters the
\* model distinguishes, and "F" standing for a forbidden call such as fetch(
Whitespace == {" ", "\n"}

RECURSIVE CollapseWs(_)
\* code.replace(/\s+/g, ' '): every run of whitespace becomes one blank
CollapseWs(s) ==
  IF s = <<>> THEN <<>>
  ELSE IF Head(s) \in Whitespace
       THEN IF Len(s) > 1 /\ s[2] \in Whitespace
            THEN CollapseWs(Tail(s))
            ELSE <<" ">> \o CollapseWs(Tail(s))
       ELSE <<Head(s)>> \o CollapseWs(Tail(s))

RECURSIVE TrimLeft(_)
TrimLeft(s) ==
  IF s # <<>> /\ Head(s) \in Whitespace THEN TrimLeft(Tail(s)) ELSE s

RECURSIVE TrimRight(_)
TrimRight(s) ==
  IF s # <<>> /\ s[Len(s)] \in Whitespace
  THEN TrimRight(SubSeq(s, 1, Len(s) - 1)) ELSE s

Trim(s) == TrimRight(TrimLeft(s))

\* the mutant: the signature is the raw script, whitespace kept
normalizeJsPatternRaw(code) == code

normalizeJsPattern(code) ==
  LET t == Trim(CollapseWs(code))
  IN  SubSeq(t, 1, Min(Len(t), PatternMaxLen))

\* the scripts the Oracle proposes in the model: trimmed and non-empty, as
\* extractTag and extractCodeFallback deliver them
Codes ==
  { <<"a">>, <<"a", " ", "b">>, <<"a", "\n", "b">>, <<"F">> }

(***************************************************************************)
(* Pages, snapshots and the step detectors                                 *)
(***************************************************************************)
\* an interactive element of a snapshot (InteractiveElement, types.ts)
ButtonOk == [role |-> "button", selector |-> "#ok", name |-> "OK",
             visible |-> TRUE, enabled |-> TRUE, handlers |-> 1, zIndex |-> 0,
             pointerEvents |-> "auto", display |-> "block", visibility |-> "visible"]
ButtonOkDisabled == [ButtonOk EXCEPT !.enabled = FALSE]
InputCode == [role |-> "textbox", selector |-> "input#code", name |-> "",
              visible |-> TRUE, enabled |-> TRUE, handlers |-> 0, zIndex |-> 0,
              pointerEvents |-> "auto", display |-> "block", visibility |-> "visible"]

\* the element lists the pages of the model show
ElementLists == { <<>>, <<ButtonOk>>, <<ButtonOkDisabled>> }

\* the step numbers a page displays: none (NoStep), in range, or beyond the
\* range the detectors accept
ShownSteps == (0..MaxPageStep) \cup {DetectorMaxStep + 1}

\* A page: stepOf is the N of a "Step N of 30" in its visible text, stepBare
\* the N of a "step N" that only the aria tree or a text without "of 30"
\* carries, notFound a 404 title, elements its interactive elements.
PageOf(a, b, e) ==
  [stepOf |-> a, stepBare |-> b, notFound |-> FALSE, url |-> "/",
   completionText |-> FALSE, elements |-> e]

\* the page of a finished challenge
CompletionPage ==
  [stepOf |-> DetectorMaxStep, stepBare |-> NoStep, notFound |-> FALSE, url |-> "/",
   completionText |-> TRUE, elements |-> <<>>]

NotFoundPage ==
  [stepOf |-> NoStep, stepBare |-> NoStep, notFound |-> TRUE, url |-> "/404",
   completionText |-> FALSE, elements |-> <<>>]

Pages ==
  { PageOf(a, NoStep, <<ButtonOk>>) : a \in ShownSteps }
  \cup { PageOf(1, b, e) : b \in {NoStep, MaxPageStep}, e \in ElementLists }
  \cup { NotFoundPage, CompletionPage }

\* the page the base URL serves: no step shown yet, a start button
LandingPage == PageOf(NoStep, NoStep, <<ButtonOk>>)

\* hasCodeLikeText(name): the accessible name holds a six-character code
hasCodeLikeText(name) == name = "AB3XK9"

\* the filter of takeEnrichedSnapshot: visible, or carrying a code-like name
IsKept(e) == e.visible \/ hasCodeLikeText(e.name)

\* scoreElement, in units of 1/200 so that the z-index share stays an integer
scoreElement(e) ==
  (IF e.visible THEN 40 * 200 ELSE 0)
  + (IF e.enabled THEN 12 * 200 ELSE 0)
  + Min(e.handlers, 4) * 12 * 200
  + Max(Min(e.zIndex, 5000), 0)
  + (IF e.pointerEvents # "none" THEN 8 * 200 ELSE 0)
  + (IF e.role \in {"button", "link"} THEN 8 * 200 ELSE 0)
  + (IF e.role \in {"textbox", "input"} THEN 6 * 200 ELSE 0)
  + (IF e.name # "" THEN 3 * 200 ELSE 0)

\* the comparator of the snapshot's sort is negative: x goes before y
SortsBefore(x, y) ==
  IF x.visible # y.visible THEN x.visible
  ELSE IF x.zIndex # y.zIndex THEN x.zIndex > y.zIndex
  ELSE scoreElement(x) > scoreElement(y)

\* the order the sort leaves: no element goes before one in front of it
IsSnapshotOrder(elements) ==
  \A i, j \in 1..Len(elements) : i < j => ~SortsBefore(elements[j], elements[i])

\* takeEnrichedSnapshot: the digest of the page at one instant. It keeps the
\* text, the url and the elements that are visible or carry a code-like name,
\* sorted (visible first, higher z-index first, higher score first) and cut to
\* MaxInteractiveElements; the 404 marker of the live page is not part of it.
takeEnrichedSnapshot(page) ==
  [stepOf |-> page.stepOf, stepBare |-> page.stepBare, url |-> page.url,
   completionText |-> page.completionText,
   elements |->
     LET sorted == SortSeq(SelectSeq(page.elements, IsKept), SortsBefore)
     IN  SubSeq(sorted, 1, Min(Len(sorted), MaxInteractiveElements))]

InDetectorRange(n) == n >= 1 /\ n <= DetectorMaxStep

SetMax(S) == CHOOSE x \in S : \A y \in S : y <= x

\* the mutant: the loose detector returns the smallest candidate
detectVisibleStepMin(snapshot) ==
  LET candidates == { n \in {snapshot.stepOf, snapshot.stepBare} : InDetectorRange(n) }
  IN  IF candidates = {} THEN NoStep
      ELSE CHOOSE x \in candidates : \A y \in candidates : x <= y

\* the loose detector: "step N", "step N/M" and "N/30" over title, visible
\* text and aria tree; the largest candidate in 1..30, or null
detectVisibleStep(snapshot) ==
  LET candidates == { n \in {snapshot.stepOf, snapshot.stepBare} : InDetectorRange(n) }
  IN  IF candidates = {} THEN NoStep ELSE SetMax(candidates)

\* the strict detector: "step N of 30" and "N/30" over title and visible text
detectVisibleStepFromPageText(snapshot) ==
  LET candidates == { n \in {snapshot.stepOf} : InDetectorRange(n) }
  IN  IF candidates = {} THEN NoStep ELSE SetMax(candidates)

\* isNotFoundPage: reads the live page; a failed evaluate counts as false
isNotFoundPage(page) == page.notFound

(***************************************************************************)
(* Diff engine (differ.ts)                                                 *)
(***************************************************************************)
elementKey(e) == <<e.role, e.selector>>

\* elementLabel(role, name): the [role "name"] of a report line
elementLabel(e) == <<e.role, e.name>>

\* String(b) and `${b}` of a boolean
StringOfBoolean(b) == IF b THEN "true" ELSE "false"

SeqRange(seq) == { seq[i] : i \in 1..Len(seq) }

\* the keys of new Map(elements.map(e => [key, e])), in the map's iteration
\* order: a key stands where it was first inserted
RECURSIVE MapKeys(_)
MapKeys(elements) ==
  IF elements = <<>> THEN <<>>
  ELSE LET front == MapKeys(SubSeq(elements, 1, Len(elements) - 1))
           k     == elementKey(elements[Len(elements)])
       IN  IF k \in SeqRange(front) THEN front ELSE Append(front, k)

Keys(snapshot) == MapKeys(snapshot.elements)

\* map.get(k): of the elements that share a key the map keeps the last
ElementAt(snapshot, k) ==
  snapshot.elements[SetMax({ i \in 1..Len(snapshot.elements) :
                               elementKey(snapshot.elements[i]) = k })]

\* An entry of the added, removed and modified lists: the line pushed, and
\* the key of the element it reports (the line itself names role and name only).
Line(e, text) == [key |-> elementKey(e), line |-> text]

\* one line per key of the snapshot that the other snapshot lacks, in map order
RECURSIVE ReportLines(_, _, _, _, _)
ReportLines(snapshot, keys, other, mark, verb) ==
  IF keys = <<>> THEN <<>>
  ELSE LET rest == ReportLines(snapshot, Tail(keys), other, mark, verb)
           e    == ElementAt(snapshot, Head(keys))
       IN  IF Head(keys) \in other THEN rest
           ELSE <<Line(e, <<mark, elementLabel(e), verb>>)>> \o rest

\* the change dimensions of one element present in both snapshots
ChangedDimensions(b, a) ==
  (IF b.visible # a.visible THEN {"visibility"} ELSE {})
  \cup (IF b.name # a.name THEN {"text"} ELSE {})
  \cup (IF b.enabled # a.enabled THEN {"enabled"} ELSE {})
  \cup (IF b.handlers # a.handlers THEN {"handlers"} ELSE {})
  \cup (IF \/ b.zIndex # a.zIndex
           \/ b.pointerEvents # a.pointerEvents
           \/ b.display # a.display
           \/ b.visibility # a.visibility
        THEN {"style"} ELSE {})

VisibilityLine(b, a) ==
  Line(b, <<"~", elementLabel(b), "visibility", StringOfBoolean(b.visible),
            StringOfBoolean(a.visible)>>)

\* the mutant: a change of the visible flag is also reported as a style change
ModifiedLinesVisibleAsStyle(b, a) ==
  IF b.visible # a.visible
  THEN << VisibilityLine(b, a),
          Line(b, <<"~", elementLabel(b), "style changed", b.zIndex, a.zIndex,
                    b.pointerEvents, a.pointerEvents>>) >>
  ELSE <<>>

\* the modified lines of one element present in both snapshots, one per
\* changed dimension, in the order of the tests
ModifiedLines(b, a) ==
  LET d == ChangedDimensions(b, a)
  IN  (IF "visibility" \in d THEN <<VisibilityLine(b, a)>> ELSE <<>>)
      \o (IF "text" \in d
          THEN <<Line(b, <<"~", b.role, "text changed", b.name, a.name>>)>> ELSE <<>>)
      \o (IF "enabled" \in d
          THEN <<Line(b, <<"~", elementLabel(b), "enabled", StringOfBoolean(b.enabled),
                           StringOfBoolean(a.enabled)>>)>>
          ELSE <<>>)
      \o (IF "handlers" \in d
          THEN <<Line(b, <<"~", elementLabel(b), "handlers", b.handlers, a.handlers>>)>>
          ELSE <<>>)
      \o (IF "style" \in d
          THEN <<Line(b, <<"~", elementLabel(b), "style changed", b.zIndex, a.zIndex,
                           b.pointerEvents, a.pointerEvents>>)>>
          ELSE <<>>)

\* the visibilityChanges and textChanges entries of one element
VisibilityChange(b, a) ==
  IF b.visible # a.visible
  THEN << [selector |-> b.selector, from |-> StringOfBoolean(b.visible),
           to |-> StringOfBoolean(a.visible)] >>
  ELSE <<>>

TextChange(b, a) ==
  IF b.name # a.name
  THEN << [selector |-> b.selector, from |-> b.name, to |-> a.name] >>
  ELSE <<>>

\* the one element of a singleton; Only({ e(x) : x \in {v} }) is e(v) with v
\* evaluated once
Only(S) == CHOOSE x \in S : TRUE

RECURSIVE Concat(_)
Concat(seqs) == IF seqs = <<>> THEN <<>> ELSE Head(seqs) \o Concat(Tail(seqs))

\* the keys the loop over the before map does not skip, in map order
CommonKeys(before, after) ==
  Only({ LET InAfter(k) == k \in ak IN SelectSeq(Keys(before), InAfter) :
           ak \in {SeqRange(Keys(after))} })

\* what one element present in both snapshots contributes to a list of the diff
EntriesOf(list, b, a) ==
  CASE list = "modifiedElements"  -> ModifiedLines(b, a)
    [] list = "visibilityChanges" -> VisibilityChange(b, a)
    [] list = "textChanges"       -> TextChange(b, a)

\* the loop over the before map: what the elements present in both snapshots
\* contribute to one list of the diff
ForCommonKeys(before, after, list) ==
  Only({ Concat([ i \in 1..Len(keys) |->
                    EntriesOf(list, ElementAt(before, keys[i]), ElementAt(after, keys[i])) ]) :
           keys \in {CommonKeys(before, after)} })

\* the mutant: every element of the after snapshot is reported as added
AddedElementsAll(before, after) ==
  ReportLines(after, Keys(after), {}, "+", "appeared")

\* the first loop: the keys of the after map that the before map lacks
AddedElements(before, after) ==
  ReportLines(after, Keys(after), SeqRange(Keys(before)), "+", "appeared")

\* the mutant: the second loop runs over the after map as the first does
RemovedElementsOfAfter(before, after) ==
  ReportLines(after, Keys(after), SeqRange(Keys(before)), "-", "removed")

\* the second loop: the keys of the before map that the after map lacks
RemovedElements(before, after) ==
  ReportLines(before, Keys(before), SeqRange(Keys(after)), "-", "removed")

NoChangeSummary == <<"CHANGES:", "(no material DOM changes detected)">>

SummaryLine(entries) == [ i \in 1..Len(entries) |-> entries[i].line ]

\* the text summary: the lines of the three lists and the URL line
Summary(added, removed, modified, urlChanged, url) ==
  IF Len(added) = 0 /\ Len(removed) = 0 /\ Len(modified) = 0 /\ ~urlChanged
  THEN NoChangeSummary
  ELSE <<"CHANGES:">> \o SummaryLine(added) \o SummaryLine(removed)
       \o SummaryLine(SubSeq(modified, 1, Min(Len(modified), SummaryMaxModified)))
       \o << IF urlChanged THEN <<"URL: changed", url>> ELSE <<"URL: unchanged">> >>

\* the body of diffSnapshots, on two snapshots at hand
SnapshotDiff(before, after) ==
  Only({ [ addedElements     |-> added,
           removedElements   |-> removed,
           modifiedElements  |-> modified,
           urlChanged        |-> before.url # after.url,
           newUrl            |-> IF before.url # after.url THEN after.url ELSE "undefined",
           visibilityChanges |-> ForCommonKeys(before, after, "visibilityChanges"),
           textChanges       |-> ForCommonKeys(before, after, "textChanges"),
           summary           |-> Summary(added, removed, modified, before.url # after.url,
                                         after.url) ] :
           added \in {AddedElements(before, after)},
           removed \in {RemovedElements(before, after)},
           modified \in {ForCommonKeys(before, after, "modifiedElements")} })

diffSnapshots(before, after) ==
  Only({ SnapshotDiff(b, a) : b \in {before}, a \in {after} })

\* the mutant: a no-op is decided from the added and removed lists only
isNoOpChangeNoModified(changes) ==
  Len(changes.addedElements) = 0 /\ Len(changes.removedElements) = 0

\* the mutant: a no-op is decided from the text summary
isNoOpChangeBySummary(changes) == changes.summary = NoChangeSummary

isNoOpChange(changes) ==
  /\ Len(changes.addedElements) = 0
  /\ Len(changes.removedElements) = 0
  /\ Len(changes.modifiedElements) = 0

EmptyDiff == diffSnapshots(takeEnrichedSnapshot(LandingPage), takeEnrichedSnapshot(LandingPage))


(***************************************************************************)
(* Tool executors (tools/js.ts, tools/drag.ts, tools/hover.ts)             *)
(***************************************************************************)
\* What the browser does during one executor call: which of its awaited
\* operations rejects (none, the snapshot before, the action itself, the
\* snapshot after), the page the action leaves, and the script's result text.
ToolEnvs(results) ==
  { [fault |-> f, after |-> p, result |-> r] :
      f \in {"none"} \cup (world.faults \cap {"action", "snapshotAfter"}),
      p \in world.pages,
      r \in { x \in results : x = "null" \/ x \in world.results } }
  \cup IF "snapshotBefore" \in world.faults
       THEN { [fault |-> "snapshotBefore", after |-> LandingPage, result |-> "null"] }
       ELSE {}

\* whether an unguarded operation of the given kind rejects
Rejects(kind) == IF kind \in world.faults THEN BOOLEAN ELSE {FALSE}

\* validateCode: the reasons a script is refused ("F" stands for a forbidden call)
validateCode(code) ==
  IF \E i \in 1..Len(code) : code[i] = "F" THEN {"forbidden call"} ELSE {}

Thrown(tool, page) ==
  [threw |-> TRUE, tool |-> tool, errors |-> {}, result |-> "null",
   changes |-> EmptyDiff, snapshot |-> takeEnrichedSnapshot(page), page |-> page]

Returned(tool, before, after, errors, result) ==
  [threw |-> FALSE, tool |-> tool, errors |-> errors, result |-> result,
   changes |-> diffSnapshots(takeEnrichedSnapshot(before), takeEnrichedSnapshot(after)),
   snapshot |-> takeEnrichedSnapshot(after), page |-> after]

\* jsTool: snapshot, validate, evaluate inside try/catch, wait, snapshot, diff.
\* Only the evaluate is guarded: a rejected snapshot rejects the call.
jsTool(page, code, env) ==
  IF env.fault = "snapshotBefore" THEN Thrown("jsTool", page)
  ELSE LET errors == validateCode(code)
           ran    == errors = {}
           after  == IF ran THEN env.after ELSE page
       IN  IF env.fault = "snapshotAfter" THEN Thrown("jsTool", after)
           ELSE IF ran /\ env.fault = "action"
                THEN Returned("jsTool", page, after, {"evaluate failed"}, "null")
                ELSE Returned("jsTool", page, after, errors,
                              IF ran THEN env.result ELSE "null")

\* dragTool: snapshot, locate and drag inside try/catch, wait, snapshot, diff
dragTool(page, sourceSelector, targetSelector, env) ==
  IF env.fault = "snapshotBefore" THEN Thrown("dragTool", page)
  ELSE IF env.fault = "snapshotAfter" THEN Thrown("dragTool", env.after)
  ELSE IF env.fault = "action"
       THEN Returned("dragTool", page, env.after, {"drag failed"}, "ok:false")
       ELSE Returned("dragTool", page, env.after, {}, "ok:true")

\* hoverTool: snapshot, hover inside try/catch, snapshot, diff
hoverTool(page, selector, env) ==
  IF env.fault = "snapshotBefore" THEN Thrown("hoverTool", page)
  ELSE IF env.fault = "snapshotAfter" THEN Thrown("hoverTool", env.after)
  ELSE IF env.fault = "action"
       THEN Returned("hoverTool", page, env.after, {"hover failed"}, "ok:false")
       ELSE Returned("hoverTool", page, env.after, {}, "ok:true")

(***************************************************************************)
(* Oracle replies and parseToolCall                                        *)
(***************************************************************************)
Absent == "absent"
\* a script tag or script fallback that the reply does not hold
AbsentCode == <<"absent">>

\* A reply, by the tags and fallback shapes it holds. A tag is Absent, or the
\* text between its markers (possibly empty); a script is a character sequence.
NoTags ==
  [status |-> Absent, tool |-> Absent, code |-> AbsentCode, fallbackCode |-> AbsentCode,
   source |-> Absent, target |-> Absent, selector |-> Absent,
   fallbackDrag |-> Absent, fallbackHover |-> Absent, prompt |-> Absent]

Replies ==
  { [NoTags EXCEPT !.status = "working"],
    [NoTags EXCEPT !.status = "", !.tool = "hover", !.selector = "#a"],
    NoTags,
    [NoTags EXCEPT !.fallbackDrag = "#a,#b"],
    [NoTags EXCEPT !.fallbackHover = "#a"],
    [NoTags EXCEPT !.tool = "js"],
    [NoTags EXCEPT !.tool = "js", !.code = <<" ">>, !.fallbackCode = <<"a">>],
    [NoTags EXCEPT !.tool = "JS", !.fallbackCode = <<"a">>],
    [NoTags EXCEPT !.tool = "screenshot"],
    [NoTags EXCEPT !.tool = "drag", !.source = "#a", !.target = "#b"],
    [NoTags EXCEPT !.tool = "drag", !.source = "#a"],
    [NoTags EXCEPT !.tool = "hover"],
    [NoTags EXCEPT !.tool = "advisor", !.prompt = "help"],
    [NoTags EXCEPT !.tool = "advisor", !.code = <<"a">>],
    [NoTags EXCEPT !.tool = "advisor"],
    [NoTags EXCEPT !.tool = "click", !.selector = "#a"] }
  \cup { [NoTags EXCEPT !.tool = "js", !.code = c] : c \in Codes }
  \cup { [NoTags EXCEPT !.fallbackCode = c] : c \in Codes }

\* extractTag: the trimmed text of a tag, or null. The short tags of Replies
\* are written already trimmed; a script tag is kept as sent and trimmed here.
extractTag(value) == IF value = AbsentCode THEN AbsentCode ELSE Trim(value)

\* extractTag(...)?.toLowerCase() on the tool tag
ToLowerCase(t) == IF t = "JS" THEN "js" ELSE t

\* a JavaScript value used as a condition: null and the empty string are false
Truthy(v) == v # Absent /\ v # ""
TruthyCode(c) == c # AbsentCode /\ c # <<>>

\* a ?? b
Coalesce(a, b) == IF a # Absent THEN a ELSE b
CoalesceCode(a, b) == IF a # AbsentCode THEN a ELSE b

ToolNone == [tool |-> "none"]

\* the mutant: a reply that holds no tool call is taken for a screenshot request
parseToolCallDefault(response) ==
  IF Truthy(response.status) THEN [tool |-> "status"]
  ELSE IF Truthy(response.tool) /\ ToLowerCase(response.tool) = "js"
          /\ TruthyCode(extractTag(response.code))
       THEN [tool |-> "js", code |-> extractTag(response.code)]
       ELSE [tool |-> "screenshot"]

parseToolCall(response) ==
  IF Truthy(response.status) THEN [tool |-> "status"]
  ELSE LET tool == ToLowerCase(response.tool)
       IN
       IF ~Truthy(tool) THEN
         IF Truthy(response.fallbackDrag) THEN [tool |-> "drag"]
         ELSE IF Truthy(response.fallbackHover) THEN [tool |-> "hover"]
         ELSE IF TruthyCode(response.fallbackCode)
              THEN [tool |-> "js", code |-> response.fallbackCode]
         ELSE ToolNone
       ELSE IF tool = "js" THEN
         LET code == CoalesceCode(extractTag(response.code), response.fallbackCode)
         IN  IF TruthyCode(code) THEN [tool |-> "js", code |-> code] ELSE ToolNone
       ELSE IF tool = "screenshot" THEN [tool |-> "screenshot"]
       ELSE IF tool = "drag" THEN
         IF Truthy(response.source) /\ Truthy(response.target)
         THEN [tool |-> "drag"]
         ELSE IF Truthy(response.fallbackDrag) THEN [tool |-> "drag"]
         ELSE ToolNone
       ELSE IF tool = "hover" THEN
         IF Truthy(Coalesce(response.selector, response.target))
         THEN [tool |-> "hover"]
         ELSE IF Truthy(response.fallbackHover) THEN [tool |-> "hover"]
         ELSE ToolNone
       ELSE IF tool = "advisor" THEN
         IF IF response.prompt # Absent
            THEN Truthy(response.prompt)
            ELSE TruthyCode(extractTag(response.code))
         THEN [tool |-> "advisor"]
         ELSE ToolNone
       ELSE ToolNone


(***************************************************************************)
(* The modelled runs                                                       *)
(***************************************************************************)
StepOne == PageOf(1, NoStep, <<ButtonOk>>)
StepOneDisabled == PageOf(1, NoStep, <<ButtonOkDisabled>>)
StepTwo == PageOf(2, NoStep, <<ButtonOk>>)

JsReply(c) == [NoTags EXCEPT !.tool = "js", !.code = c]
DragReply == [NoTags EXCEPT !.tool = "drag", !.source = "#a", !.target = "#b"]
HoverReply == [NoTags EXCEPT !.tool = "hover", !.selector = "#a"]
ScreenshotReply == [NoTags EXCEPT !.tool = "screenshot"]
AdvisorReply == [NoTags EXCEPT !.tool = "advisor", !.prompt = "help"]

AllFaults ==
  {"action", "snapshotBefore", "snapshotAfter", "screenshot", "navigate", "advisor", "oracle"}

\* a quiet site and a repetitive Oracle: no-op streaks, bans and rejections
NoOpWorld ==
  [ name |-> "no-op", maxSteps |-> MaxSteps, maxToolCalls |-> MaxToolCalls + 3,
    pages |-> {StepOne, StepOneDisabled},
    replies |-> { JsReply(c) : c \in Codes } \cup {DragReply, HoverReply},
    faults |-> {"screenshot"}, results |-> {}, preScans |-> {"none"}, slow |-> FALSE ]

\* every reply shape and an Oracle that can fail, on a site with one page
OracleWorld ==
  [ name |-> "oracle", maxSteps |-> MaxSteps, maxToolCalls |-> MaxToolCalls - 2,
    pages |-> {StepOne},
    replies |-> Replies,
    faults |-> {"oracle"}, results |-> {}, preScans |-> {"none"}, slow |-> TRUE ]

\* every page and every fault, for a short run
FaultWorld ==
  [ name |-> "fault", maxSteps |-> MaxSteps, maxToolCalls |-> MaxToolCalls - 1,
    pages |-> Pages,
    replies |-> {JsReply(<<"a">>), DragReply, HoverReply, ScreenshotReply, AdvisorReply},
    faults |-> AllFaults \ {"oracle"}, results |-> {"submitted"},
    preScans |-> {"rejects", "none", "cleared", "drag"}, slow |-> FALSE ]

\* a slow Oracle and a site that resists the hard skip
SlowWorld ==
  [ name |-> "slow", maxSteps |-> MaxSteps, maxToolCalls |-> MaxToolCalls - 1,
    pages |-> {StepOne, StepTwo, NotFoundPage},
    replies |-> {NoTags, JsReply(<<"a">>)},
    faults |-> {"snapshotAfter", "navigate"}, results |-> {}, preScans |-> {"none"},
    slow |-> TRUE ]

\* a slow Oracle that repeats one script on a page the script does not change
BanWorld ==
  [ name |-> "ban", maxSteps |-> MaxSteps, maxToolCalls |-> MaxToolCalls + 2,
    pages |-> {StepOne},
    replies |-> {JsReply(<<"a">>)},
    faults |-> {}, results |-> {}, preScans |-> {"none"}, slow |-> TRUE ]

\* the last steps of a 30-step challenge: pages at, below and above the
\* completion watermark, final pages with and without completion text, a
\* strict step line and a live input, and a 404 page
LateStep == PageOf(CompletionWatermark + 1, NoStep, <<ButtonOk>>)
EarlyStep == PageOf(CompletionWatermark - 1, NoStep, <<ButtonOk>>)
LastStep == PageOf(DetectorMaxStep, NoStep, <<ButtonOk>>)
CompletionLoose == [CompletionPage EXCEPT !.stepOf = NoStep, !.stepBare = DetectorMaxStep]
CompletionWithInput == [CompletionPage EXCEPT !.elements = <<InputCode>>]
BannerPage == [LateStep EXCEPT !.completionText = TRUE]

FinishWorld ==
  [ name |-> "finish", maxSteps |-> DetectorMaxStep, maxToolCalls |-> MaxToolCalls,
    pages |-> {EarlyStep, LateStep, LastStep, BannerPage, CompletionPage, CompletionLoose,
               CompletionWithInput, NotFoundPage},
    replies |-> {JsReply(<<"a">>)},
    faults |-> {}, results |-> {}, preScans |-> {"none"}, slow |-> FALSE ]

\* a step that never advances, a code that is submitted, and a tool budget
\* that outlasts the escalation thresholds
\* a ceiling that lets one step go through two stuck rounds
StuckCeiling == 2 * hardSkipCallThreshold + MaxToolCalls

StuckWorld ==
  [ name |-> "stuck", maxSteps |-> MaxSteps, maxToolCalls |-> StuckCeiling,
    pages |-> {StepOne, StepOneDisabled},
    replies |-> {JsReply(<<"a">>), HoverReply},
    faults |-> {}, results |-> {"submitted"}, preScans |-> {"none"}, slow |-> FALSE ]

Worlds ==
  {NoOpWorld, OracleWorld, FaultWorld, SlowWorld, BanWorld, FinishWorld, StuckWorld}

(***************************************************************************)
(* The control loop: runAgent                                              *)
(***************************************************************************)
maxSteps == world.maxSteps
maxToolCalls == world.maxToolCalls

VARIABLES
  pc,                       \* where runAgent is: the await it is suspended at
  clock,                    \* Date.now() - startTime, in seconds
  page,                     \* the live browser page
  snapshot,                 \* the snapshot the loop last stored
  toolCalls, stepToolCalls,
  sessionCompletedSteps, completedSteps, lastVisibleStep,
  stepStartVisibleStep, stepStartTimeMs, lastPreScannedStep,
  stuckEscalationSent, stuckCyclesOnStep, stuckCyclesStep,
  consecutiveModelFailures,
  hardSkipFailCount, lastHardSkipStep,
  codeSubmittedThisStep,
  noOpWindow, bannedJsPatterns, pendingPriorityDirective,
  lastMessage,              \* the message last pushed on the conversation
  modelResponse,            \* the Oracle's reply of this iteration
  toolCall,                 \* the parsed tool call being dispatched
  currentStep,              \* the loop iteration's currentStep
  cycleStep, baseStep,      \* performHardSkip's cycleStep and baseStep
  log,                      \* the lines the latest step wrote with logAgent
  failedHardSkips,          \* observer: the hard-skip attempts in which both the
                            \* forced advance and the nav click ran and failed,
                            \* as the step they were on and their count
  lastError                 \* the awaited operation that rejected in the latest step

runVars ==
  << pc, clock, page, snapshot, toolCalls, stepToolCalls, sessionCompletedSteps,
     completedSteps, lastVisibleStep, stepStartVisibleStep, stepStartTimeMs,
     lastPreScannedStep, stuckEscalationSent, stuckCyclesOnStep, stuckCyclesStep,
     consecutiveModelFailures, hardSkipFailCount, lastHardSkipStep,
     codeSubmittedThisStep, noOpWindow, bannedJsPatterns, pendingPriorityDirective,
     lastMessage, modelResponse, toolCall, currentStep, cycleStep, baseStep, log,
     failedHardSkips, lastError, world >>

\* The diff engine and the loop's no-op test, applied on their own to a pair
\* of snapshots: the two inputs, the SnapshotDiff returned, the verdict.
VARIABLES diffPc, diffBefore, diffAfter, diffChanges, diffNoOp

diffVars == << diffPc, diffBefore, diffAfter, diffChanges, diffNoOp >>

\* The step-indexed runner's skill pass (runStep, solveStep, runSkill), run on
\* its own for one step.
VARIABLES
  solvePc,                  \* where runStep is
  domPage,                  \* the live page the skills act on
  domSnap,                  \* solveStep's snap
  skillIndex,               \* the position of solveStep's loop in skills
  skillLogs,                \* the module's skillLogs
  passResults,              \* what runSkill returned, skill by skill, in this pass
  submittedCodes,           \* the codes given to submitCodeWithSnapshot
  solveClock,               \* now(), in ms since solveStep was entered
  attemptNo,                \* runStep's attempt
  solveResult,              \* what the last solveStep returned
  scoutActions,             \* the scout's actions not yet executed
  scoutExecuted,            \* the scout's actions executed since its snapshot was taken
  stepIndex,                \* runAgent's loop index step, runStep's stepNumber
  stepResults               \* runAgent's results

skillVars ==
  << solvePc, domPage, domSnap, skillIndex, skillLogs, passResults, submittedCodes,
     solveClock, attemptNo, solveResult, scoutActions, scoutExecuted, stepIndex, stepResults >>

\* One run of a skill of the library (Skill.run), on its own: the page
\* actions it performs, and what it had seen when it started each of them.
VARIABLES
  actPc,                    \* where the run is: "scrolls", "targets", "submit", "returned"
  actSkill,                 \* the skill's id
  actPage,                  \* the controls of the page, and whether it shows a trap indicator
  actIndex,                 \* the position of the run's loop over its controls
  actSweep,                 \* dialog_scroll's sweep over one scrollable
  actClock,                 \* now(), in ms since solveStep was entered
  trapDetected,             \* a detectTrap call of this run returned true
  pageActions,              \* the page actions of this run, in order
  actResult                 \* the run returned a code

actVars ==
  << actPc, actSkill, actPage, actIndex, actSweep, actClock, trapDetected, pageActions,
     actResult >>

vars == << runVars, diffVars, skillVars, actVars >>


\* The state as one record, so that a procedure is an operator from state to
\* state. "throwing" marks an exception in flight inside the current step.
Cur ==
  [ pc |-> pc, clock |-> clock, page |-> page, snapshot |-> snapshot,
    toolCalls |-> toolCalls, stepToolCalls |-> stepToolCalls,
    sessionCompletedSteps |-> sessionCompletedSteps, completedSteps |-> completedSteps,
    lastVisibleStep |-> lastVisibleStep, stepStartVisibleStep |-> stepStartVisibleStep,
    stepStartTimeMs |-> stepStartTimeMs, lastPreScannedStep |-> lastPreScannedStep,
    stuckEscalationSent |-> stuckEscalationSent, stuckCyclesOnStep |-> stuckCyclesOnStep,
    stuckCyclesStep |-> stuckCyclesStep,
    consecutiveModelFailures |-> consecutiveModelFailures,
    hardSkipFailCount |-> hardSkipFailCount, lastHardSkipStep |-> lastHardSkipStep,
    codeSubmittedThisStep |-> codeSubmittedThisStep, noOpWindow |-> noOpWindow,
    bannedJsPatterns |-> bannedJsPatterns,
    pendingPriorityDirective |-> pendingPriorityDirective,
    lastMessage |-> lastMessage, modelResponse |-> NoTags, toolCall |-> ToolNone,
    currentStep |-> currentStep, failedHardSkips |-> failedHardSkips,
    cycleStep |-> cycleStep, baseStep |-> baseStep, log |-> <<>>,
    lastError |-> "none", throwing |-> FALSE, preScanState |-> "none",
    result |-> "null" ]

\* the step ends: every variable takes its value in the record
Commit(state) ==
  \E s \in {state} :
    /\ world' = world
    /\ pc' = s.pc
    /\ clock' = s.clock
    /\ page' = s.page
    /\ snapshot' = s.snapshot
    /\ toolCalls' = s.toolCalls
    /\ stepToolCalls' = s.stepToolCalls
    /\ sessionCompletedSteps' = s.sessionCompletedSteps
    /\ completedSteps' = s.completedSteps
    /\ lastVisibleStep' = s.lastVisibleStep
    /\ stepStartVisibleStep' = s.stepStartVisibleStep
    /\ stepStartTimeMs' = s.stepStartTimeMs
    /\ lastPreScannedStep' = s.lastPreScannedStep
    /\ stuckEscalationSent' = s.stuckEscalationSent
    /\ stuckCyclesOnStep' = s.stuckCyclesOnStep
    /\ stuckCyclesStep' = s.stuckCyclesStep
    /\ consecutiveModelFailures' = s.consecutiveModelFailures
    /\ hardSkipFailCount' = s.hardSkipFailCount
    /\ lastHardSkipStep' = s.lastHardSkipStep
    /\ codeSubmittedThisStep' = s.codeSubmittedThisStep
    /\ noOpWindow' = s.noOpWindow
    /\ bannedJsPatterns' = s.bannedJsPatterns
    /\ pendingPriorityDirective' = s.pendingPriorityDirective
    /\ lastMessage' = s.lastMessage
    /\ modelResponse' = s.modelResponse
    /\ toolCall' = s.toolCall
    /\ failedHardSkips' = s.failedHardSkips
    /\ currentStep' = s.currentStep
    /\ cycleStep' = s.cycleStep
    /\ baseStep' = s.baseStep
    /\ log' = s.log
    /\ lastError' = s.lastError
    /\ UNCHANGED << diffVars, skillVars, actVars >>

\* the mutant: the candidate replaces the current value
setCompletedStepsAssign(current, candidate, limit) == Min(limit, candidate)

setCompletedStepsMonotonic(current, candidate, limit) ==
  Max(current, Min(limit, candidate))

\* detectVisibleStep(snapshot) ?? 1
OrOne(step) == IF step = NoStep THEN 1 ELSE step

\* the detectors' null, where the loop keeps a step or null
NoHardSkipStep == 0 - 1

NoFailedHardSkips == [step |-> NoStep, count |-> 0]

Logged(s, line) == [s EXCEPT !.log = Append(@, line)]
Pushed(s, message) == [s EXCEPT !.lastMessage = message]

\* an awaited operation rejects: the exception is in flight
Throw(s, operation) == [s EXCEPT !.throwing = TRUE, !.lastError = operation]

\* an exception nobody catches ends runAgent: its promise rejects
Uncaught(s) == IF s.throwing THEN [s EXCEPT !.pc = "raised"] ELSE s

\* pendingPriorityDirective, as the set of its lines
appendPriorityDirective(s, directive) ==
  [s EXCEPT !.pendingPriorityDirective = @ \cup {directive}]

\* a tool result is stored: the loop's snapshot, and the page the tool left
Stored(s, r) ==
  [s EXCEPT !.snapshot = r.snapshot, !.page = r.page, !.result = r.result]

CountCall(s) ==
  [s EXCEPT !.toolCalls = @ + 1, !.stepToolCalls = @ + 1]

\* the per-step counters every recovery path resets
ResetStepState(s, now) ==
  [s EXCEPT !.stepToolCalls = 0, !.stuckEscalationSent = FALSE,
            !.stuckCyclesOnStep = 0, !.stuckCyclesStep = NoStep,
            !.codeSubmittedThisStep = FALSE,
            !.stepStartVisibleStep = s.lastVisibleStep,
            !.stepStartTimeMs = now, !.lastPreScannedStep = NoStep]


\* the scripts the controller itself runs
defaultStartCode == <<"start">>
forceAdvanceStepCode == <<"force">>
navClickCode == <<"nav">>
autoSkipCode == <<"autoskip">>

\* screenshotTool: page.screenshot, unguarded
screenshotTool(s, rejects) == IF rejects THEN Throw(s, "screenshotTool") ELSE s

\* navigateTool: page.goto then a snapshot, unguarded
navigateTool(s, rejects) ==
  IF rejects THEN Throw(s, "navigateTool")
  ELSE [s EXCEPT !.page = LandingPage, !.snapshot = takeEnrichedSnapshot(LandingPage)]

\* var r = await jsTool(...); snapshot = r.snapshot  (or the call rejects)
RunJs(s, code, env) ==
  Only({ IF r.threw THEN Throw([s EXCEPT !.page = r.page], r.tool) ELSE Stored(s, r) :
           r \in {jsTool(s.page, code, env)} })

\* the mutant: the entry is put in front and the newest end is dropped
PushNoOpFront(window, entry) ==
  LET w == <<entry>> \o window
  IN  IF Len(w) > NoOpWindowSize THEN SubSeq(w, 1, NoOpWindowSize) ELSE w

\* the no-op window, one entry appended, at most NoOpWindowSize kept
PushNoOp(window, entry) ==
  LET w == Append(window, entry)
  IN  IF Len(w) > NoOpWindowSize THEN Tail(w) ELSE w

NoPattern == <<"absent">>

\* the mutant: the newest entry is banned whatever tool it came from
LastJsEntryNewest(window) == window[Len(window)].jsPattern

\* [...noOpWindow].reverse().find(entry => typeof entry.jsPattern === 'string')
LastJsEntry(window) ==
  LET js == { i \in 1..Len(window) : window[i].jsPattern # NoPattern }
  IN  IF js = {} THEN NoPattern ELSE window[SetMax(js)].jsPattern

\* the mutant: the directive is queued but the window is kept
BreakerDirectiveKeepsWindow(s) ==
  IF s.throwing THEN s
  ELSE appendPriorityDirective(Pushed(s, "no-op directive"), "no-op")

\* the breaker after its screenshot returned: directive queued, window cleared
BreakerDirective(s) ==
  IF s.throwing THEN s
  ELSE [appendPriorityDirective(Pushed(s, "no-op directive"), "no-op")
          EXCEPT !.noOpWindow = <<>>]

\* the breaker's ban of the window's latest script
BanPattern(s, pattern) ==
  IF pattern # NoPattern /\ pattern # <<>>
  THEN Logged([s EXCEPT !.bannedJsPatterns = @ \cup {pattern}], "banned pattern")
  ELSE s

maybeTriggerNoOpCircuitBreaker(s, shotRejects) ==
  IF Len(s.noOpWindow) < NoOpWindowSize THEN s
  ELSE BreakerDirective(
         screenshotTool(
           CountCall(Logged(BanPattern(s, LastJsEntry(s.noOpWindow)), "circuit breaker")),
           shotRejects))

\* the outcomes of the awaited operations of a restart from the base URL
RestartEnvs ==
  { [navRejects |-> n, start |-> e] : n \in Rejects("navigate"), e \in ToolEnvs({"null"}) }

\* a restart from the base URL: navigate, then the start script
Restart(s, env) ==
  IF navigateTool(s, env.navRejects).throwing
  THEN navigateTool(s, env.navRejects)
  ELSE RunJs(CountCall(navigateTool(s, env.navRejects)), defaultStartCode, env.start)

\* the progress record after a restart: the session record is cleared
Restarted(s, lvs) ==
  [s EXCEPT !.failedHardSkips = NoFailedHardSkips,
            !.lastVisibleStep = lvs,
            !.sessionCompletedSteps = 0,
            !.completedSteps =
               setCompletedStepsMonotonic(s.completedSteps, Max(0, lvs - 1), maxSteps)]

\* maybeRecoverFrom404 after its restart returned
Recovered(s) ==
  IF s.throwing THEN s
  ELSE Logged(Pushed(appendPriorityDirective(
         ResetStepState(
           [Restarted(s, OrOne(detectVisibleStep(s.snapshot)))
              EXCEPT !.hardSkipFailCount = 0, !.lastHardSkipStep = NoHardSkipStep,
                     !.noOpWindow = <<>>],
           s.clock),
         "recovered from 404"), "recovered from 404"), "recovered from 404")

\* the body of maybeRecoverFrom404 once the page is found to be a 404 page
recoverFrom404(s, env) == Recovered(Restart(Logged(s, "404 detected"), env))

\* observer: one more attempt on this step ran both scripts without success
NoteFailedHardSkip(s) ==
  [s EXCEPT !.failedHardSkips =
     IF @.step = s.cycleStep THEN [@ EXCEPT !.count = Min(@ + 1, 2)]
     ELSE [step |-> s.cycleStep, count |-> 1]]

\* performHardSkip counts the attempts on one step
CountHardSkip(s, step) ==
  IF step = s.lastHardSkipStep
  THEN [s EXCEPT !.hardSkipFailCount = @ + 1]
  ELSE [s EXCEPT !.hardSkipFailCount = 1, !.lastHardSkipStep = step]

\* detectVisibleStepFromPageText(snapshot) ?? lastVisibleStep
HardSkipBaseStep(s) ==
  IF detectVisibleStepFromPageText(s.snapshot) # NoStep
  THEN detectVisibleStepFromPageText(s.snapshot)
  ELSE s.lastVisibleStep

\* the synchronous head of performHardSkip, up to its first await
EnterHardSkip(s, step, reason) ==
  [CountCall(CountHardSkip(Logged(Logged(s, reason), "HARD SKIP"), step))
     EXCEPT !.cycleStep = step, !.baseStep = HardSkipBaseStep(s), !.pc = "hs_force"]

\* hardSkipHandled: the attempt counter is cleared
Handled(s) == [s EXCEPT !.hardSkipFailCount = 0, !.lastHardSkipStep = NoHardSkipStep]

\* the end of performHardSkip's try block
FinishHardSkip(s) ==
  [ResetStepState(s, s.clock) EXCEPT !.noOpWindow = <<>>, !.cycleStep = NoStep,
                                     !.baseStep = NoStep, !.pc = "head"]

\* performHardSkip's catch block
CatchHardSkip(s) ==
  [ResetStepState(Logged(s, "HARD SKIP failed"), s.clock)
     EXCEPT !.throwing = FALSE, !.cycleStep = NoStep, !.baseStep = NoStep, !.pc = "head"]

\* sessionCompletedSteps after a step is observed
AdvancedSession(s, observed) ==
  setCompletedStepsMonotonic(s.sessionCompletedSteps, observed - 1, maxSteps)

\* a step is observed above the last one: the progress record moves
Advance(s, observed) ==
  [s EXCEPT !.sessionCompletedSteps = AdvancedSession(s, observed),
            !.completedSteps =
               setCompletedStepsMonotonic(s.completedSteps, AdvancedSession(s, observed),
                                          maxSteps),
            !.lastVisibleStep = observed]

\* the turn's state message is built: the queued directive is consumed
BuildPrompt(s) ==
  [Pushed(s, "state") EXCEPT !.pendingPriorityDirective = {}, !.pc = "call"]

\* the step timer restarts when the step changed since the last iteration
StartIteration(s, cs) ==
  IF cs # s.stepStartVisibleStep
  THEN [s EXCEPT !.currentStep = cs, !.stepStartVisibleStep = cs, !.stepStartTimeMs = s.clock]
  ELSE [s EXCEPT !.currentStep = cs]

\* an iteration that does not look at the step timer
IterateUntimed(s) ==
  IF s.currentStep # s.lastPreScannedStep
  THEN [s EXCEPT !.pc = "prescan"]
  ELSE BuildPrompt(s)

\* the iteration after the loop guard and the global time check passed
Iterate(s) ==
  IF s.clock - s.stepStartTimeMs > StepTimeBudgetS
  THEN EnterHardSkip(s, s.currentStep, "step time budget")
  ELSE IF s.currentStep # s.lastPreScannedStep
  THEN [s EXCEPT !.pc = "prescan"]
  ELSE BuildPrompt(s)

\* the mutant: the loop guard alone, without the global time budget
LoopExitNoTimeBudget(s) ==
  IF ~(s.sessionCompletedSteps < maxSteps /\ s.toolCalls < maxToolCalls)
  THEN Logged([s EXCEPT !.pc = "done"], "final")
  ELSE Iterate(StartIteration(s, Max(1, s.lastVisibleStep)))

\* the while loop's guard and the global time budget
LoopExit(s) ==
  IF ~(s.sessionCompletedSteps < maxSteps /\ s.toolCalls < maxToolCalls)
  THEN Logged([s EXCEPT !.pc = "done"], "final")
  ELSE IF s.clock > GlobalTimeBudgetS
  THEN Logged(Logged([s EXCEPT !.pc = "done"], "time budget"), "final")
  ELSE Iterate(StartIteration(s, Max(1, s.lastVisibleStep)))

\* top of the while loop, up to the first await of the iteration
LoopHead ==
  /\ pc = "head"
  /\ Commit(LoopExit(Cur))

\* __clearOverlays() inside the pre-scan removes elements from the page
ClearedPage(p) ==
  LET q == [p EXCEPT !.elements = <<>>]
  IN  IF q \in world.pages THEN q ELSE p

NoToolEnv == [fault |-> "none", after |-> LandingPage, result |-> "null"]

PreScanEnvs ==
  { [scan |-> k, cleared |-> c, skip |-> NoToolEnv] :
      k \in world.preScans \cap {"rejects", "none"}, c \in {FALSE} }
  \cup { [scan |-> "none", cleared |-> TRUE, skip |-> NoToolEnv] :
           k \in world.preScans \cap {"cleared"} }
  \cup { [scan |-> "drag", cleared |-> FALSE, skip |-> e] :
           k \in world.preScans \cap {"drag"},
           e \in ToolEnvs({"Auto-skip failed", "Auto-skipped"}) }

\* the pre-scan's catch block
PreScanFailed(s) ==
  [Logged(appendPriorityDirective(s, "pre-scan failed"), "pre-scan failed")
     EXCEPT !.throwing = FALSE, !.preScanState = "none"]

\* the auto-skip moved on: the step is read and the step state is reset
AutoSkipSucceeded(s, observed) ==
  [(IF observed # NoStep /\ observed > s.lastVisibleStep THEN Advance(s, observed) ELSE s)
     EXCEPT !.codeSubmittedThisStep = FALSE, !.stepToolCalls = 0,
            !.stuckEscalationSent = FALSE, !.stuckCyclesOnStep = 0,
            !.stuckCyclesStep = NoStep, !.hardSkipFailCount = 0,
            !.lastHardSkipStep = NoHardSkipStep, !.noOpWindow = <<>>,
            !.stepStartVisibleStep =
               IF observed # NoStep /\ observed > s.lastVisibleStep
               THEN observed ELSE s.lastVisibleStep,
            !.stepStartTimeMs = s.clock,
            !.preScanState = "auto-skip-success"]

\* the pre-scan after its auto-skip script returned
AutoSkipped(s) ==
  IF s.throwing THEN PreScanFailed(s)
  ELSE IF s.result # "Auto-skip failed"
  THEN AutoSkipSucceeded(
         Pushed(appendPriorityDirective(Logged(s, "pre-scan auto-skip"), "auto-skipped"),
                "pre-scan auto-skip"),
         detectVisibleStep(s.snapshot))
  ELSE [Pushed(appendPriorityDirective(Logged(s, "pre-scan auto-skip"), "auto-skip failed"),
               "pre-scan auto-skip")
          EXCEPT !.preScanState = "auto-skip-failed"]

\* runHiddenDomPreScan: the whole body is inside try/catch
runHiddenDomPreScan(s, env) ==
  IF env.scan = "rejects" THEN PreScanFailed(s)
  ELSE IF env.scan = "none"
  THEN [Logged(appendPriorityDirective(
                 [s EXCEPT !.page = IF env.cleared THEN ClearedPage(s.page) ELSE s.page],
                 "pre-scan results"), "pre-scan completed")
          EXCEPT !.preScanState = "none"]
  ELSE AutoSkipped(RunJs(CountCall(s), autoSkipCode, env.skip))

\* the loop after the pre-scan returned
AfterPreScan(s) ==
  IF s.preScanState = "auto-skip-success"
  THEN [s EXCEPT !.lastPreScannedStep = s.currentStep, !.pc = "head"]
  ELSE BuildPrompt([s EXCEPT !.lastPreScannedStep = s.currentStep])

PreScan ==
  /\ pc = "prescan"
  /\ \E env \in PreScanEnvs : Commit(AfterPreScan(runHiddenDomPreScan(Cur, env)))

\* wall-clock time passes while the Oracle is awaited
Tick ==
  /\ pc = "call"
  /\ world.slow
  /\ clock <= GlobalTimeBudgetS
  /\ clock' = clock + TickSeconds
  /\ UNCHANGED << pc, page, snapshot, toolCalls, stepToolCalls, sessionCompletedSteps,
                  completedSteps, lastVisibleStep, stepStartVisibleStep, stepStartTimeMs,
                  lastPreScannedStep, stuckEscalationSent, stuckCyclesOnStep,
                  stuckCyclesStep, consecutiveModelFailures, hardSkipFailCount,
                  lastHardSkipStep, codeSubmittedThisStep, noOpWindow, bannedJsPatterns,
                  pendingPriorityDirective, lastMessage, modelResponse, toolCall,
                  currentStep, cycleStep, baseStep, log, failedHardSkips, lastError,
                  world >>
  /\ UNCHANGED << diffVars, skillVars, actVars >>

\* the catch block around callGemini
ModelCallFailed(s) ==
  IF s.consecutiveModelFailures + 1 >= MaxModelFailures
  THEN Logged(Logged(Logged(
         [s EXCEPT !.consecutiveModelFailures = @ + 1, !.pc = "done"],
         "model call failed"), "repeated model failures"), "final")
  ELSE Logged([s EXCEPT !.consecutiveModelFailures = @ + 1, !.pc = "head"],
              "model call failed")

\* callGemini rejects (its own retries are spent)
OracleFails ==
  /\ pc = "call"
  /\ "oracle" \in world.faults
  /\ Commit(ModelCallFailed(Cur))

\* the mutant: a reply leaves the failure counter as it is
ModelRepliedKeepsCount(s, response) ==
  [Pushed(Logged(s, "model selected tool"), "model")
     EXCEPT !.modelResponse = response,
            !.toolCall = parseToolCall(response),
            !.pc = "dispatch"]

\* callGemini returned: the counter is cleared and the reply is parsed
ModelReplied(s, response) ==
  [Pushed(Logged(s, "model selected tool"), "model")
     EXCEPT !.consecutiveModelFailures = 0,
            !.modelResponse = response,
            !.toolCall = parseToolCall(response),
            !.pc = "dispatch"]

\* callGemini returns a reply
OracleReplies ==
  /\ pc = "call"
  /\ \E response \in world.replies : Commit(ModelReplied(Cur, response))

\* the reply holds no tool call: a corrective re-prompt, and the next iteration
DispatchNone ==
  /\ pc = "dispatch"
  /\ toolCall.tool = "none"
  /\ Commit([Pushed(Cur, "tool parse failed") EXCEPT !.pc = "head"])

\* the reply is a status note
DispatchStatus ==
  /\ pc = "dispatch"
  /\ toolCall.tool = "status"
  /\ Commit([Pushed(Cur, "status noted") EXCEPT !.pc = "head"])

\* the mutant: the proposal is compared as sent, without normalization
IsBannedRaw(code, banned) == code \in banned

\* bannedJsPatterns.has(normalizeJsPattern(toolCall.code))
IsBanned(code, banned) == normalizeJsPattern(code) \in banned

\* an executed page action is entered in the no-op window, or clears it
TrackNoOp(s, changes, entry, shotRejects) ==
  IF isNoOpChange(changes)
  THEN maybeTriggerNoOpCircuitBreaker(
         [Logged(s, "no-op") EXCEPT !.noOpWindow = PushNoOp(@, entry)], shotRejects)
  ELSE [s EXCEPT !.noOpWindow = <<>>]

\* a screenshot outcome is drawn only when the breaker takes a screenshot
BreakerFires(s, r) ==
  ~r.threw /\ isNoOpChange(r.changes) /\ Len(s.noOpWindow) >= NoOpWindowSize - 1

\* var r = await tool(...); snapshot = r.snapshot  (or the call rejects)
Ran(s, r) ==
  IF r.threw THEN Throw([s EXCEPT !.page = r.page], r.tool) ELSE Stored(s, r)

\* a text change is also a modified element, so the test "modified or input
\* text changed" is "modified"
NoteSubmit(s, r) ==
  IF r.result = "submitted" /\ r.changes.modifiedElements # <<>>
  THEN [s EXCEPT !.codeSubmittedThisStep = TRUE] ELSE s

\* the loop after an Oracle-requested page action returned
AfterPageAction(s, r, entry, shotRejects) ==
  IF s.throwing THEN Uncaught(s)
  ELSE Uncaught([TrackNoOp(NoteSubmit(Pushed(Logged(s, "tool executed"), "tool result"), r),
                           r.changes, entry, shotRejects)
                   EXCEPT !.pc = "check404"])

\* the proposal is banned: it is not executed
RejectBanned(s) ==
  [appendPriorityDirective(Pushed(Logged(s, "blocked banned pattern"), "pattern banned"),
                           "pattern banned")
     EXCEPT !.pc = "head"]

JsEntry(code) == [tool |-> "js", jsPattern |-> normalizeJsPattern(code)]
PointerEntry(tool) == [tool |-> tool, jsPattern |-> NoPattern]

\* the Oracle asked for a script
ExecJs ==
  /\ pc = "dispatch"
  /\ toolCall.tool = "js"
  /\ IF IsBanned(toolCall.code, bannedJsPatterns)
     THEN Commit(RejectBanned(Cur))
     ELSE \E env \in ToolEnvs({"null", "submitted"}), shotRejects \in Rejects("screenshot") :
            \E r \in {jsTool(page, toolCall.code, env)} :
              /\ shotRejects => BreakerFires(Cur, r)
              /\ Commit(AfterPageAction(Ran(CountCall(Cur), r), r,
                                        JsEntry(toolCall.code), shotRejects))

PointerTool(tool, env) ==
  IF tool = "drag" THEN dragTool(page, "source", "target", env)
  ELSE hoverTool(page, "selector", env)

\* the Oracle asked for a drag or a hover
ExecPointer ==
  /\ pc = "dispatch"
  /\ toolCall.tool \in {"drag", "hover"}
  /\ \E tool \in {toolCall.tool}, env \in ToolEnvs({"null"}), shotRejects \in Rejects("screenshot") :
       \E r \in {PointerTool(tool, env)} :
         /\ shotRejects => BreakerFires(Cur, r)
         /\ Commit(AfterPageAction(Ran(CountCall(Cur), r), r, PointerEntry(tool),
                                   shotRejects))

\* the loop after an Oracle-requested screenshot or advisor call returned
AfterAuxiliary(s, line, message) ==
  IF s.throwing THEN Uncaught(s)
  ELSE [Pushed(Logged(s, line), message) EXCEPT !.pc = "check404"]

\* the Oracle asked for a screenshot
ExecScreenshot ==
  /\ pc = "dispatch"
  /\ toolCall.tool = "screenshot"
  /\ \E rejects \in Rejects("screenshot") :
       Commit(AfterAuxiliary(screenshotTool(CountCall(Cur), rejects),
                             "screenshot executed", "screenshot"))

\* advisorTool: a second Oracle call, unguarded
advisorTool(s, rejects) == IF rejects THEN Throw(s, "advisorTool") ELSE s

\* the Oracle asked for the advisor
ExecAdvisor ==
  /\ pc = "dispatch"
  /\ toolCall.tool = "advisor"
  /\ \E rejects \in Rejects("advisor") :
       Commit(AfterAuxiliary(advisorTool(CountCall(Cur), rejects),
                             "advisor executed", "advisor result"))

\* hasActiveFormControls: a visible, enabled input or submit button
hasActiveFormControls(snap) ==
  \E i \in 1..Len(snap.elements) :
    LET e == snap.elements[i]
    IN  /\ e.visible /\ e.enabled
        /\ \/ e.role = "textbox"
           \/ (e.name = "Submit" /\ e.role = "button")

\* the mutant: completion is declared with form controls still active
detectCompletionWithControls(snap, stepCounter, completed, visibleStep) ==
  /\ stepCounter >= CompletionWatermark
  /\ snap.completionText
  /\ LET visible == IF visibleStep # NoStep THEN visibleStep ELSE detectVisibleStep(snap)
     IN  visible # NoStep /\ visible >= DetectorMaxStep
  /\ completed >= CompletionWatermark

detectCompletion(snap, stepCounter, completed, visibleStep) ==
  /\ stepCounter >= CompletionWatermark
  /\ snap.completionText
  /\ LET visible == IF visibleStep # NoStep THEN visibleStep ELSE detectVisibleStep(snap)
     IN  visible # NoStep /\ visible >= DetectorMaxStep
  /\ completed >= CompletionWatermark
  /\ ~hasActiveFormControls(snap)

\* the end of an iteration: the completion check, then the next iteration
EndOfTurn(s, observed) ==
  IF s.throwing THEN Uncaught(s)
  ELSE IF detectCompletion(s.snapshot, s.currentStep, s.sessionCompletedSteps, observed)
  THEN Logged(Logged(
         [s EXCEPT !.sessionCompletedSteps =
                      setCompletedStepsMonotonic(s.sessionCompletedSteps, maxSteps, maxSteps),
                   !.completedSteps =
                      setCompletedStepsMonotonic(s.completedSteps, maxSteps, maxSteps),
                   !.pc = "done"], "completion detected"), "final")
  ELSE [s EXCEPT !.pc = "head"]

\* Tier B: one screenshot and a directive, once per step
TierBDirective(s) == IF s.throwing THEN s ELSE Pushed(s, "stuck directive")

TierB(s, shotRejects) ==
  TierBDirective(screenshotTool(
    [CountCall(Logged(s, "stuck escalation")) EXCEPT !.stuckEscalationSent = TRUE],
    shotRejects))

\* the observed step is above the last one
StepAdvanced(s, observed) ==
  Pushed(Logged(
    [ResetStepState(Advance(s, observed), s.clock)
       EXCEPT !.noOpWindow = <<>>, !.pendingPriorityDirective = {},
              !.stepStartVisibleStep = observed],
    "step advanced"), "step advanced")

effectiveHardSkipThreshold(s) ==
  IF s.codeSubmittedThisStep THEN hardSkipCallThreshold + SubmittedExtraCalls
  ELSE hardSkipCallThreshold

\* a hard-skip script returned: the step is read strictly
HardSkipObserved(s) == detectVisibleStepFromPageText(s.snapshot)

HardSkipAdvanced(s) ==
  HardSkipObserved(s) # NoStep /\ HardSkipObserved(s) > s.baseStep

\* the loop after maybeRecoverFrom404 returned true
AfterRecovery(s) == IF s.throwing THEN Uncaught(s) ELSE [s EXCEPT !.pc = "head"]

\* toolCalls += 1 alone: the Tier C block leaves stepToolCalls to its reset
CountToolCall(s) == [s EXCEPT !.toolCalls = @ + 1]

\* the script of the recovery sweep: every fixed element with a z-index
\* above 100 is hidden
overlaySweepCode == <<"sweep">>

\* stuckCyclesOnStep counts the Tier C rounds on one step
CountStuckCycle(s, step) ==
  IF s.stuckCyclesStep = step
  THEN [s EXCEPT !.stuckCyclesOnStep = @ + 1]
  ELSE [s EXCEPT !.stuckCyclesStep = step, !.stuckCyclesOnStep = 1]

\* what the environment does to the awaited operations of the Tier C block
TierCEnvs ==
  { [force |-> f, nav |-> n, reloadRejects |-> rr, start |-> st, retry |-> rt,
     sweep |-> sw, restart |-> rs] :
      f \in ToolEnvs({"null"}), n \in ToolEnvs({"null"}), rr \in Rejects("navigate"),
      st \in ToolEnvs({"null"}), rt \in ToolEnvs({"null"}), sw \in ToolEnvs({"null"}),
      rs \in RestartEnvs }

NoTierCEnv == [force |-> "none"]

\* the inline hard skip's catch block
TierCCatch(s) ==
  [Logged(s, "HARD SKIP failed")
     EXCEPT !.throwing = FALSE, !.stepToolCalls = 0, !.stuckEscalationSent = FALSE,
            !.stuckCyclesOnStep = 0, !.stuckCyclesStep = NoStep,
            !.lastPreScannedStep = NoStep, !.baseStep = NoStep, !.pc = "head"]

\* the end of the inline hard skip: the 404 check, then the counters are cleared
TierCSkipEnd(s, env) ==
  IF isNotFoundPage(s.page)
  THEN Only({ IF r.throwing THEN TierCCatch(r) ELSE [r EXCEPT !.baseStep = NoStep, !.pc = "head"] :
                r \in {recoverFrom404(s, env.restart)} })
  ELSE [s EXCEPT !.stepToolCalls = 0, !.stuckEscalationSent = FALSE,
                 !.stuckCyclesOnStep = 0, !.stuckCyclesStep = NoStep,
                 !.noOpWindow = <<>>, !.lastPreScannedStep = NoStep,
                 !.baseStep = NoStep, !.pc = "head"]

\* a script of the inline hard skip moved the page past the base step
TierCHandled(s, line, env) ==
  TierCSkipEnd(Pushed(Advance(s, HardSkipObserved(s)), line), env)

\* the inline hard skip after the retried forced advance returned
TierCAfterRetry(s, env) ==
  IF s.throwing THEN TierCCatch(s)
  ELSE IF HardSkipAdvanced(s) THEN TierCHandled(s, "hard skip retry succeeded", env)
  ELSE TierCSkipEnd(Pushed(Logged(s, "hard skip failed"), "hard skip failed"), env)

\* the inline hard skip after the reloaded page ran the start script
TierCAfterStart(s, env) ==
  IF s.throwing THEN TierCCatch(s)
  ELSE TierCAfterRetry(
         RunJs(CountToolCall(
                 [Restarted(s, OrOne(detectVisibleStep(s.snapshot)))
                    EXCEPT !.lastPreScannedStep = NoStep]),
               forceAdvanceStepCode, env.retry),
         env)

\* the inline hard skip's fallback: reload, start script, forced advance again
TierCReload(s, env) ==
  IF env.reloadRejects THEN TierCCatch(Throw(s, "reload"))
  ELSE TierCAfterStart(
         RunJs(CountToolCall(Logged(s, "hard skip reload")), defaultStartCode, env.start),
         env)

\* the inline hard skip after the navigation click returned
TierCAfterNav(s, env) ==
  IF s.throwing THEN TierCCatch(s)
  ELSE IF HardSkipAdvanced(s) THEN TierCHandled(s, "hard skip succeeded", env)
  ELSE TierCReload(s, env)

\* the inline hard skip after the forced advance returned
TierCAfterForce(s, env) ==
  IF s.throwing THEN TierCCatch(s)
  ELSE IF HardSkipAdvanced(s) THEN TierCHandled(s, "hard skip succeeded", env)
  ELSE TierCAfterNav(RunJs(CountToolCall(s), navClickCode, env.nav), env)

\* Tier C from the second round on one step: a hard skip written out in the loop
TierCHardSkip(s, env) ==
  TierCAfterForce(
    RunJs(CountToolCall([Logged(s, "HARD SKIP") EXCEPT !.baseStep = HardSkipBaseStep(s)]),
          forceAdvanceStepCode, env.force),
    env)

\* hasContent: more than two interactive elements are left
hasContent(snap) == Len(snap.elements) > 2

\* the restart of the first round, taken when the page has no content left
TierCRestart(s, env) ==
  Only({ IF r.throwing THEN r
         ELSE Logged(
                [Restarted(r, OrOne(detectVisibleStep(r.snapshot)))
                   EXCEPT !.stepStartVisibleStep = OrOne(detectVisibleStep(r.snapshot)),
                          !.stepStartTimeMs = r.clock, !.lastPreScannedStep = NoStep],
                "restarted from base URL") :
           r \in {Restart(Logged(s, "page unrecoverable"), env.restart)} })

\* the first round after its sweep and its 404 check: the counters are cleared
TierCRecovered(s) ==
  IF s.throwing THEN s
  ELSE Pushed([s EXCEPT !.stepToolCalls = 0, !.stuckEscalationSent = FALSE,
                        !.noOpWindow = <<>>, !.lastPreScannedStep = NoStep],
              "state recovery applied")

\* the first round after the sweep returned
TierCAfterSweep(s, observed, env) ==
  IF s.throwing THEN Uncaught(s)
  ELSE IF isNotFoundPage(s.page) THEN AfterRecovery(recoverFrom404(s, env.restart))
  ELSE EndOfTurn(
         TierCRecovered(IF hasContent(s.snapshot)
                        THEN Logged(s, "recovery succeeded")
                        ELSE TierCRestart(s, env)),
         observed)

\* Tier C in the first round on a step: the overlay sweep
TierCSweep(s, observed, env) ==
  TierCAfterSweep(
    Logged(RunJs(CountToolCall(Logged(s, "attempting recovery")), overlaySweepCode, env.sweep),
           "overlay sweep"),
    observed, env)

\* Tier C: the round is counted, then the hard skip or the sweep
TierC(s, observed, env) ==
  Only({ IF c.stuckCyclesOnStep >= 2 THEN TierCHardSkip(c, env)
         ELSE TierCSweep(c, observed, env) :
           c \in {CountStuckCycle(s, IF observed # NoStep THEN observed ELSE s.currentStep)} })

\* the loop after the Tier B test: the Tier C test, then the end of the turn
AfterTierB(s, observed, env) ==
  IF s.throwing THEN Uncaught(s)
  ELSE IF s.stepToolCalls >= TierCThreshold THEN TierC(s, observed, env)
  ELSE EndOfTurn(s, observed)

\* the step did not advance: the escalation tiers, in the order of the code
Stuck(s, observed, shotRejects, env) ==
  IF s.stepToolCalls >= effectiveHardSkipThreshold(s)
  THEN EnterHardSkip(s, IF observed # NoStep THEN observed ELSE s.currentStep, "stuck")
  ELSE IF s.stepToolCalls >= TierBThreshold /\ ~s.stuckEscalationSent
  THEN AfterTierB(TierB(s, shotRejects), observed, env)
  ELSE AfterTierB(s, observed, env)

\* the loop after the 404 check found the page alive
Observe(s, observed, shotRejects, env) ==
  IF observed # NoStep /\ observed > s.lastVisibleStep
  THEN EndOfTurn(StepAdvanced(s, observed), observed)
  ELSE Stuck(s, observed, shotRejects, env)

\* Tier B's screenshot is the only awaited operation of the observation
TierBFires(s) ==
  /\ ~(detectVisibleStep(s.snapshot) # NoStep /\ detectVisibleStep(s.snapshot) > s.lastVisibleStep)
  /\ s.stepToolCalls < effectiveHardSkipThreshold(s)
  /\ s.stepToolCalls >= TierBThreshold /\ ~s.stuckEscalationSent

\* Tier C's operations are awaited only when its test passes
TierCFires(s) ==
  /\ ~(detectVisibleStep(s.snapshot) # NoStep /\ detectVisibleStep(s.snapshot) > s.lastVisibleStep)
  /\ s.stepToolCalls < effectiveHardSkipThreshold(s)
  /\ s.stepToolCalls + (IF TierBFires(s) THEN 1 ELSE 0) >= TierCThreshold

\* after an executed tool: the 404 check, then the step observation, the
\* stuck-step escalation and the completion check
Check404 ==
  /\ pc = "check404"
  /\ IF isNotFoundPage(page)
     THEN \E env \in RestartEnvs : Commit(AfterRecovery(recoverFrom404(Cur, env)))
     ELSE \E shotRejects \in Rejects("screenshot"),
             env \in IF TierCFires(Cur) THEN TierCEnvs ELSE {NoTierCEnv} :
            /\ shotRejects => TierBFires(Cur)
            /\ Commit(Observe(Cur, detectVisibleStep(snapshot), shotRejects, env))

HardSkipSucceeded(s, line) ==
  FinishHardSkip(Handled(Pushed(Logged(Advance(s, HardSkipObserved(s)), line),
                                "hard skip succeeded")))

\* performHardSkip after the forced advance returned
AfterForce(s) ==
  IF s.throwing THEN CatchHardSkip(s)
  ELSE IF HardSkipAdvanced(s) THEN HardSkipSucceeded(s, "tier1 succeeded")
  ELSE [CountCall(Logged(s, "tier1 failed")) EXCEPT !.pc = "hs_nav"]

\* performHardSkip, first await: the forced advance
HardSkipForce ==
  /\ pc = "hs_force"
  /\ \E env \in ToolEnvs({"null"}) :
       Commit(AfterForce(RunJs(Cur, forceAdvanceStepCode, env)))

\* performHardSkip after the navigation click returned
AfterNav(s) ==
  IF s.throwing THEN CatchHardSkip(s)
  ELSE IF HardSkipAdvanced(s) THEN HardSkipSucceeded(s, "tier2 succeeded")
  ELSE [NoteFailedHardSkip(
          Pushed(Logged(Logged(s, "tier2 failed"), "hard skip failed"), "hard skip failed"))
          EXCEPT !.pc = IF s.hardSkipFailCount >= 2 THEN "hs_reset" ELSE "hs_404"]

\* performHardSkip, second await: the navigation click
HardSkipNav ==
  /\ pc = "hs_nav"
  /\ \E env \in ToolEnvs({"null"}) :
       Commit(AfterNav(RunJs(Cur, navClickCode, env)))

\* performHardSkip after the forced reset returned
AfterReset(s) ==
  IF s.throwing THEN CatchHardSkip(s)
  ELSE FinishHardSkip(Handled(Pushed(
         Restarted(s, OrOne(detectVisibleStep(s.snapshot))), "forced reset applied")))

\* performHardSkip, the forced reset after two failures on the same step
HardSkipReset ==
  /\ pc = "hs_reset"
  /\ \E env \in RestartEnvs :
       Commit(AfterReset(Restart(Logged(Cur, "force resetting"), env)))

\* performHardSkip after maybeRecoverFrom404 returned true
AfterHardSkipRecovery(s) ==
  IF s.throwing THEN CatchHardSkip(s)
  ELSE [s EXCEPT !.cycleStep = NoStep, !.baseStep = NoStep, !.pc = "head"]

\* performHardSkip, after a failed attempt: the 404 check
HardSkip404 ==
  /\ pc = "hs_404"
  /\ IF isNotFoundPage(page)
     THEN \E env \in RestartEnvs : Commit(AfterHardSkipRecovery(recoverFrom404(Cur, env)))
     ELSE Commit(FinishHardSkip(Cur))

\* the state after runAgent's preamble: the page is open, the start script ran
RunStart ==
  /\ pc = "head"
  /\ clock = 0
  /\ snapshot = takeEnrichedSnapshot(page)
  /\ toolCalls = 1
  /\ stepToolCalls = 0
  /\ lastVisibleStep = OrOne(detectVisibleStep(snapshot))
  /\ sessionCompletedSteps = Max(0, lastVisibleStep - 1)
  /\ completedSteps = sessionCompletedSteps
  /\ stepStartVisibleStep = lastVisibleStep
  /\ stepStartTimeMs = 0
  /\ lastPreScannedStep = NoStep
  /\ stuckEscalationSent = FALSE
  /\ stuckCyclesOnStep = 0
  /\ stuckCyclesStep = NoStep
  /\ consecutiveModelFailures = 0
  /\ hardSkipFailCount = 0
  /\ lastHardSkipStep = NoHardSkipStep
  /\ codeSubmittedThisStep = FALSE
  /\ noOpWindow = <<>>
  /\ bannedJsPatterns = {}
  /\ pendingPriorityDirective = {}
  /\ lastMessage = "none"
  /\ modelResponse = NoTags
  /\ toolCall = ToolNone
  /\ failedHardSkips = NoFailedHardSkips
  /\ currentStep = lastVisibleStep
  /\ cycleStep = NoStep
  /\ baseStep = NoStep
  /\ log = <<>>
  /\ lastError = "none"

\* no pair of snapshots is under comparison
DiffIdle ==
  /\ diffPc = "idle"
  /\ diffBefore = takeEnrichedSnapshot(LandingPage)
  /\ diffAfter = takeEnrichedSnapshot(LandingPage)
  /\ diffChanges = EmptyDiff
  /\ diffNoOp = TRUE

(***************************************************************************)
(* The skill library and the skill pass (step-indexed runner)              *)
(***************************************************************************)
\* no code: JavaScript's null where a code is expected
Null == <<"null">>

Digits == {"0", "1", "2", "3", "4", "5", "6", "7", "8", "9"}
UpperSeq ==
  << "A", "B", "C", "D", "E", "F", "G", "H", "I", "J", "K", "L", "M",
     "N", "O", "P", "Q", "R", "S", "T", "U", "V", "W", "X", "Y", "Z" >>
LowerSeq ==
  << "a", "b", "c", "d", "e", "f", "g", "h", "i", "j", "k", "l", "m",
     "n", "o", "p", "q", "r", "s", "t", "u", "v", "w", "x", "y", "z" >>
Uppers == { UpperSeq[i] : i \in 1..Len(UpperSeq) }
Lowers == { LowerSeq[i] : i \in 1..Len(LowerSeq) }

\* c.toLowerCase(), c a sequence of characters
LowerCase(c) ==
  [ i \in 1..Len(c) |->
      IF c[i] \in Uppers
      THEN LowerSeq[CHOOSE k \in 1..Len(UpperSeq) : UpperSeq[k] = c[i]]
      ELSE c[i] ]

\* the six-character tokens the pages of the model hold
CodeAB3XK9 == <<"A", "B", "3", "X", "K", "9">>
CodeQZ9K2M == <<"Q", "Z", "9", "K", "2", "M">>
WordSUBMIT == <<"S", "U", "B", "M", "I", "T">>
WordLower == <<"a", "a", "a", "a", "a", "a">>
WordNotice == <<"N", "o", "t", "i", "c", "e">>
CssLength == <<"1", "2", "0", "0", "p", "x">>

TokenDigits == <<"1", "2", "3", "4", "5", "6">>
TokenUpper == <<"Q", "W", "Z", "X", "K", "J">>
TokenMixed == <<"a", "b", "3", "x", "k", "9">>

ValidCodes == {CodeQZ9K2M, CodeAB3XK9}

\* the token lists of a page, in document order; a token that is all digits
\* stands first in its list, where Object.keys(codes) puts an integer key, so
\* Object.keys keeps the order of the list
CandidateLists ==
  { <<>>, <<WordSUBMIT, WordLower>>, <<WordSUBMIT, CodeAB3XK9, WordLower>>,
    <<CssLength, WordNotice, CodeQZ9K2M>>,
    <<TokenDigits, TokenUpper, TokenMixed, CodeAB3XK9>> }

\* excludeWords, by the words of the list that a token of the model can be
excludeWords ==
  { <<"s", "u", "b", "m", "i", "t">>, <<"n", "o", "t", "i", "c", "e">>,
    <<"r", "e", "v", "e", "a", "l">> }

\* cssUnitPattern: /\d+(px|em|ms|rem|vh|vw|pt|ch)$/i
cssUnits ==
  { <<"p", "x">>, <<"e", "m">>, <<"m", "s">>, <<"r", "e", "m">>, <<"v", "h">>,
    <<"v", "w">>, <<"p", "t">>, <<"c", "h">> }

cssUnitPattern(c) ==
  \E u \in cssUnits :
    /\ Len(c) > Len(u)
    /\ LowerCase(SubSeq(c, Len(c) - Len(u) + 1, Len(c))) = u
    /\ c[Len(c) - Len(u)] \in Digits

CountIn(c, class) == Cardinality({ i \in 1..Len(c) : c[i] \in class })

\* scoreCode of DOM_EXTRACT_SCRIPT
scoreCode(c) ==
  LET hasDigit == CountIn(c, Digits) > 0
      hasUpper == CountIn(c, Uppers) > 0
      hasLower == CountIn(c, Lowers) > 0
  IN  (IF hasDigit /\ (hasUpper \/ hasLower) THEN 100 ELSE 0)
      + (IF hasDigit /\ hasUpper /\ ~hasLower THEN 50 ELSE 0)
      + CountIn(c, Digits) * 15
      + CountIn(c, Uppers) * 10
      - (IF ~hasDigit /\ ~hasUpper THEN 200 ELSE 0)
      - (IF hasUpper /\ hasLower /\ ~hasDigit /\ CountIn(c, Uppers) = 1 /\ c[1] \in Uppers
         THEN 150 ELSE 0)
      - (IF hasUpper /\ ~hasLower /\ ~hasDigit THEN 20 ELSE 0)
      + (IF ~hasUpper /\ ~hasLower THEN 20 ELSE 0)

\* the model's tokens, and their scores computed once
Tokens ==
  { CodeAB3XK9, CodeQZ9K2M, WordSUBMIT, WordLower, WordNotice, CssLength,
    TokenDigits, TokenUpper, TokenMixed }
ScoreOf == [ c \in Tokens |-> scoreCode(c) ]

\* the keys of the codes object: each token once, at its first place
RECURSIVE Dedupe(_)
Dedupe(tokens) ==
  IF tokens = <<>> THEN <<>>
  ELSE LET rest == Dedupe(SubSeq(tokens, 1, Len(tokens) - 1))
           last == tokens[Len(tokens)]
       IN  IF \E i \in 1..Len(rest) : rest[i] = last THEN rest ELSE Append(rest, last)

\* the filter: neither an excluded word nor a CSS length
Candidates == { c \in Tokens : LowerCase(c) \notin excludeWords /\ ~cssUnitPattern(c) }
IsCandidate(c) == c \in Candidates

\* candidates.sort by falling score; the sort is stable
RECURSIVE SortByScore(_)
SortByScore(cs) ==
  IF cs = <<>> THEN <<>>
  ELSE LET sorted == SortByScore(SubSeq(cs, 1, Len(cs) - 1))
           c == cs[Len(cs)]
           k == Cardinality({ i \in 1..Len(sorted) : ScoreOf[sorted[i]] >= ScoreOf[c] })
       IN  SubSeq(sorted, 1, k) \o <<c>> \o SubSeq(sorted, k + 1, Len(sorted))

\* extractCodesFromDOM: the page's tokens but the excluded words and CSS
\* lengths, best score first, each with its score
extractCodesFromDOM(p) ==
  LET sorted == SortByScore(SelectSeq(Dedupe(p.tokens), IsCandidate))
  IN  [ i \in 1..Len(sorted) |-> [code |-> sorted[i], score |-> ScoreOf[sorted[i]]] ]

Alnum == Digits \cup Uppers \cup Lowers

\* /^[A-Za-z0-9]{6}$/
IsSixCharCode(c) == Len(c) = 6 /\ \A i \in 1..Len(c) : c[i] \in Alnum

CodesOf(codes) == [ i \in 1..Len(codes) |-> codes[i].code ]

\* pickCode: the first candidate that, trimmed, is a six-character code, or null
pickCode(codes) ==
  LET normalized == SelectSeq([ i \in 1..Len(codes) |-> Trim(codes[i].code) ], IsSixCharCode)
  IN  IF Len(normalized) > 0 THEN normalized[1] ELSE Null

\* A page of the challenge, by what the skills can see and cause: the
\* six-character tokens in the DOM, the popups on top, what shows once the
\* popups are gone, a reveal button and what a click on it shows, a dropdown
\* and what choosing its last option shows, the code the step accepts, the
\* step shown.
DomPageOf(c, n, u, r, br, s, bs, a) ==
  [tokens |-> c, popups |-> n, underPopups |-> u, reveal |-> r, behindReveal |-> br,
   selects |-> s, behindSelect |-> bs, accepts |-> a, step |-> 1]

NoDomPage == DomPageOf(<<>>, 0, <<>>, FALSE, <<>>, FALSE, <<>>, CodeQZ9K2M)

\* a control and the tokens using it brings into the DOM: none behind a
\* control the page lacks
Behind(code) == { <<FALSE, <<>> >>, <<TRUE, <<>> >>, <<TRUE, <<code>> >> }

DomPages ==
  { DomPageOf(c, n, u, r[1], r[2], s[1], s[2], a) :
      c \in CandidateLists, n \in 0..MaxPopups, u \in {<<>>, <<CodeAB3XK9>>},
      r \in Behind(CodeQZ9K2M), s \in Behind(CodeAB3XK9), a \in ValidCodes }

\* the page that follows an accepted code
NextStepPage(p) == [NoDomPage EXCEPT !.step = p.step + 1]

checkForCode(p) == pickCode(extractCodesFromDOM(p))

NonEmptyCode(c) == Len(c) > 0

\* captureDOMSnapshot: the candidates with a non-empty code, the clickables
\* whose text asks to reveal, the features
captureDOMSnapshot(p) ==
  [codesFound |-> SelectSeq(CodesOf(extractCodesFromDOM(p)), NonEmptyCode),
   revealClickable |-> p.reveal,
   hasSelects |-> p.selects]

\* dismissOverlays closes k of the popups; the last one gone, the page shows
\* what they covered
dismissOverlays(p, k) ==
  IF p.popups > 0 /\ k = p.popups
  THEN [p EXCEPT !.popups = 0, !.tokens = @ \o p.underPopups, !.underPopups = <<>>]
  ELSE [p EXCEPT !.popups = @ - k]

\* a click on the reveal button, which a popup on top swallows
ClickReveal(p) ==
  IF p.reveal /\ p.popups = 0
  THEN [p EXCEPT !.tokens = @ \o p.behindReveal, !.behindReveal = <<>>]
  ELSE p

\* selectLastOption on the page's dropdown
SelectLast(p) ==
  IF p.selects /\ p.popups = 0
  THEN [p EXCEPT !.tokens = @ \o p.behindSelect, !.behindSelect = <<>>]
  ELSE p

\* submitCodeWithSnapshot: the code is typed and submitted; the step accepts
\* its own code only
submitCodeWithSnapshot(p, code) == IF code = p.accepts THEN NextStepPage(p) ELSE p

\* verifyStep(page, expectedStep).advanced
verifyStep(p, expectedStep) == p.step > expectedStep

skills ==
  << "direct_code", "overlay_cleaner", "reveal_button", "dialog_radio", "dialog_scroll",
     "click_here", "checkbox", "dropdown" >>

\* skill.match(snap); the pages of the model hold no dialog, no click-here
\* text and no checkbox
SkillMatch(id, s) ==
  CASE id = "direct_code"     -> Len(s.codesFound) > 0
    [] id = "overlay_cleaner" -> TRUE
    [] id = "reveal_button"   -> s.revealClickable
    [] id = "dropdown"        -> s.hasSelects
    [] OTHER                  -> FALSE

\* the page skill.run leaves; k is the number of popups its dismissal closes
SkillPage(id, p, k) ==
  CASE id = "overlay_cleaner" -> dismissOverlays(p, k)
    [] id = "reveal_button"   -> ClickReveal(p)
    [] id = "dropdown"        -> SelectLast(p)
    [] OTHER                  -> p

\* the code of the SkillResult skill.run returns
SkillCode(id, s, after) ==
  IF id = "direct_code" THEN s.codesFound[1] ELSE checkForCode(after)

\* Boolean(result.code)
BooleanOfCode(code) == code # Null /\ code # <<>>

\* the mutant: the entry says whether the skill ran
SkillLogMatched(stepNumber, attempt, id, code) ==
  [step |-> stepNumber, attempt |-> attempt, skillId |-> id, success |-> TRUE,
   codeFound |-> code]

\* the SkillLog runSkill pushes
SkillLog(stepNumber, attempt, id, code) ==
  [step |-> stepNumber, attempt |-> attempt, skillId |-> id,
   success |-> BooleanOfCode(code), codeFound |-> code]

\* withinDeadline(deadline), the deadline being STEP_DEADLINE_MS after the entry
withinDeadline(s) == s.solveClock < STEP_DEADLINE_MS

SolveCur ==
  [ solvePc |-> solvePc, domPage |-> domPage, domSnap |-> domSnap,
    skillIndex |-> skillIndex, skillLogs |-> skillLogs, passResults |-> passResults,
    submittedCodes |-> submittedCodes, solveClock |-> solveClock,
    attemptNo |-> attemptNo, solveResult |-> solveResult,
    scoutActions |-> scoutActions, scoutExecuted |-> scoutExecuted,
    stepIndex |-> stepIndex, stepResults |-> stepResults ]

SolveCommit(state) ==
  \E s \in {state} :
    /\ solvePc' = s.solvePc
    /\ domPage' = s.domPage
    /\ domSnap' = s.domSnap
    /\ skillIndex' = s.skillIndex
    /\ skillLogs' = s.skillLogs
    /\ passResults' = s.passResults
    /\ submittedCodes' = s.submittedCodes
    /\ solveClock' = s.solveClock
    /\ attemptNo' = s.attemptNo
    /\ solveResult' = s.solveResult
    /\ scoutActions' = s.scoutActions
    /\ scoutExecuted' = s.scoutExecuted
    /\ stepIndex' = s.stepIndex
    /\ stepResults' = s.stepResults
    /\ UNCHANGED << runVars, diffVars, actVars >>

\* runSkill: an unmatched skill returns no code and leaves no log entry; a
\* matched one runs and its result is logged
runSkill(s, id, k) ==
  IF ~SkillMatch(id, s.domSnap)
  THEN [s EXCEPT !.passResults =
                    Append(@, [skillId |-> id, attempt |-> s.attemptNo, matched |-> FALSE,
                               code |-> Null, closed |-> 0])]
  ELSE Only({ [s EXCEPT !.domPage = after,
                        !.skillLogs = Append(@, SkillLog(s.stepIndex, s.attemptNo, id, code)),
                        !.passResults =
                           Append(@, [skillId |-> id, attempt |-> s.attemptNo, matched |-> TRUE,
                                      code |-> code,
                                      closed |-> s.domPage.popups - after.popups])] :
                after \in {SkillPage(id, s.domPage, k)},
                code \in {SkillCode(id, s.domSnap, SkillPage(id, s.domPage, k))} })

\* return { success: true }: runStep returns
\* return { success: false, ... }: runStep goes to its next attempt, if any
Returned2(s, success) ==
  IF success \/ s.attemptNo >= Min(MAX_STEP_ATTEMPTS, MaxAttempts)
  THEN [s EXCEPT !.solvePc = "returned", !.solveResult = success]
  ELSE [s EXCEPT !.solvePc = "start", !.solveResult = success, !.attemptNo = @ + 1,
                 !.solveClock = 0]

\* await submitCodeWithSnapshot(page, snap, code); verify = await verifyStep(...)
Submit(s, code, by) ==
  [s EXCEPT !.domPage = submitCodeWithSnapshot(@, code),
            !.submittedCodes = Append(@, [code |-> code, by |-> by, attempt |-> s.attemptNo])]

Elapsed(s, ms) == [s EXCEPT !.solveClock = Min(@ + ms, STEP_DEADLINE_MS)]

\* a loop tail that keeps the snapshot of the iteration before
NextSkillStale(s) ==
  IF ~withinDeadline(s) \/ s.skillIndex >= Len(skills)
  THEN [s EXCEPT !.solvePc = "fallback"]
  ELSE [s EXCEPT !.skillIndex = @ + 1]

\* the second half of a loop iteration: the deadline test and the new snapshot
NextSkill(s) ==
  IF ~withinDeadline(s) \/ s.skillIndex >= Len(skills)
  THEN [s EXCEPT !.solvePc = "fallback"]
  ELSE [s EXCEPT !.domSnap = captureDOMSnapshot(s.domPage), !.skillIndex = @ + 1]

\* the first half: the skill's code, if any, is submitted and verified
AfterSkill(s, stepNumber) ==
  Only({ IF ~BooleanOfCode(code) THEN NextSkill(s)
         ELSE Only({ IF verifyStep(s2.domPage, stepNumber) THEN Returned2(s2, TRUE)
                     ELSE NextSkill(s2) :
                       s2 \in {Submit(s, code, skills[s.skillIndex])} }) :
           code \in {s.passResults[Len(s.passResults)].code} })

\* solveStep up to its loop: overlays dismissed, the DOM checked for a code,
\* which is submitted and verified, and the first snapshot of the loop
SolveStart ==
  /\ solvePc = "start"
  /\ \E k \in 0..domPage.popups, ms \in {0, SolveTickMs} :
       \E s \in {Elapsed([SolveCur EXCEPT !.domPage = dismissOverlays(@, k),
                                           !.passResults = <<>>, !.skillIndex = 1,
                                           !.solvePc = "loop"], ms)} :
         \E domCode \in {checkForCode(s.domPage)} :
           IF domCode = Null
           THEN SolveCommit([s EXCEPT !.domSnap = captureDOMSnapshot(s.domPage)])
           ELSE \E s2 \in {Submit(s, domCode, "dom")} :
                  IF verifyStep(s2.domPage, stepIndex)
                  THEN SolveCommit(Returned2(s2, TRUE))
                  ELSE SolveCommit([s2 EXCEPT !.domSnap = captureDOMSnapshot(s2.domPage)])

\* one iteration of solveStep's loop over the skills
SkillIteration ==
  /\ solvePc = "loop"
  /\ IF ~withinDeadline(SolveCur)
     THEN SolveCommit([SolveCur EXCEPT !.solvePc = "fallback"])
     ELSE \E k \in 0..domPage.popups, ms \in {0, SolveTickMs} :
            SolveCommit(AfterSkill(Elapsed(runSkill(SolveCur, skills[skillIndex], k), ms),
                                   stepIndex))

\* the actions a scout query proposes in the model (AgentAction)
DismissAction == [type |-> "dismiss_overlays", eid |-> "", code |-> <<>>]
ClickRevealAction == [type |-> "click_eid", eid |-> "reveal", code |-> <<>>]
SubmitAction(code) == [type |-> "submit_code", eid |-> "", code |-> code]

\* parsed.actions of the three scout queries: the modal, the reveal and the
\* form scout
ScoutReplies ==
  { <<modal, reveal, form>> :
      modal \in { <<>>, <<DismissAction>> },
      reveal \in { <<>>, <<ClickRevealAction>>, <<DismissAction, ClickRevealAction>> },
      form \in { <<>>, <<SubmitAction(CodeAB3XK9)>> } }

\* `${action.type}-${eid}-${code}`
ActionKey(action) == <<action.type, action.eid, action.code>>

\* the unique map: the first action of each key, in order of arrival
RECURSIVE UniqueActions(_)
UniqueActions(actions) ==
  IF actions = <<>> THEN <<>>
  ELSE LET rest == UniqueActions(SubSeq(actions, 1, Len(actions) - 1))
           last == actions[Len(actions)]
       IN  IF \E i \in 1..Len(rest) : ActionKey(rest[i]) = ActionKey(last)
           THEN rest ELSE Append(rest, last)

\* buildScoutActions: the three parallel queries' actions, flattened, made
\* unique and cut to MAX_SCOUT_ACTIONS; no page of the model has a dialog, so
\* the stable sort that puts a dialog's actions first keeps the order
buildScoutActions(results) ==
  LET unique == UniqueActions(results[1] \o results[2] \o results[3])
  IN  SubSeq(unique, 1, Min(Len(unique), MAX_SCOUT_ACTIONS))

\* executeAction's effect on the page; k popups close on dismiss_overlays
executeAction(p, action, k) ==
  CASE action.type = "dismiss_overlays" -> dismissOverlays(p, k)
    [] action.type = "click_eid" /\ action.eid = "reveal" -> ClickReveal(p)
    [] OTHER -> p

\* after the loop over the skills: a new snapshot, and the scout's queries
\* over it
ScoutBatch ==
  /\ solvePc = "fallback"
  /\ IF ~withinDeadline(SolveCur)
     THEN SolveCommit([SolveCur EXCEPT !.solvePc = "combined"])
     ELSE \E results \in ScoutReplies, ms \in {0, SolveTickMs} :
            SolveCommit(Elapsed([SolveCur EXCEPT
                                   !.domSnap = captureDOMSnapshot(domPage),
                                   !.scoutActions = buildScoutActions(results),
                                   !.scoutExecuted = 0,
                                   !.solvePc = "scout"], ms))

\* the code an executed scout action leaves to submit: its own for
\* submit_code, else the one checkForCode finds on the page afterwards
ScoutCode(action, after) ==
  IF action.type = "submit_code" THEN action.code ELSE checkForCode(after)

\* one turn of the loop over scoutActions; detectTrap finds no trap on the
\* pages of the model, and the time goes by in the Oracle's calls
ScoutAction ==
  /\ solvePc = "scout"
  /\ IF scoutActions = <<>> \/ ~withinDeadline(SolveCur)
     THEN SolveCommit([SolveCur EXCEPT !.solvePc = "combined", !.scoutActions = <<>>])
     ELSE \E k \in 0..domPage.popups :
            \E after \in {executeAction(domPage, Head(scoutActions), k)} :
              \E code \in {ScoutCode(Head(scoutActions), after)} :
                \E s \in {[SolveCur EXCEPT !.domPage = after,
                                           !.scoutActions = Tail(@),
                                           !.scoutExecuted = @ + 1]} :
                  \E s2 \in {IF BooleanOfCode(code) THEN Submit(s, code, "scout") ELSE s} :
                    IF verifyStep(s2.domPage, stepIndex)
                    THEN SolveCommit(Returned2(s2, TRUE))
                    ELSE SolveCommit(s2)

\* the combined call on a screenshot: its code, unless it is NONE, is
\* submitted with a new snapshot
Combined ==
  /\ solvePc = "combined"
  /\ IF ~withinDeadline(SolveCur)
     THEN SolveCommit(Returned2(SolveCur, FALSE))
     ELSE \E code \in ValidCodes \cup {Null} :
            IF code = Null
            THEN SolveCommit(Returned2(SolveCur, FALSE))
            ELSE \E s2 \in {Submit([SolveCur EXCEPT !.domSnap = captureDOMSnapshot(domPage),
                                                    !.scoutExecuted = 0],
                                   code, "combined")} :
                   SolveCommit(Returned2(s2, verifyStep(s2.domPage, stepIndex)))

\* no skill is being run on its own
ActIdle ==
  /\ actPc = "idle"
  /\ actSkill = "none"
  /\ actPage = [targets |-> 0, scrollables |-> 0, submitEid |-> FALSE, trap |-> FALSE]
  /\ actIndex = 1
  /\ actSweep = 0
  /\ actClock = 0
  /\ trapDetected = FALSE
  /\ pageActions = <<>>
  /\ actResult = FALSE

\* runStep(page, config, 1) is entered on a page of the challenge
SolveInit ==
  /\ world = BanWorld
  /\ page = StepOne
  /\ RunStart
  /\ DiffIdle
  /\ solvePc = "start"
  /\ domPage \in DomPages
  /\ domSnap = captureDOMSnapshot(NoDomPage)
  /\ skillIndex = 1
  /\ skillLogs = <<>>
  /\ passResults = <<>>
  /\ submittedCodes = <<>>
  /\ solveClock = 0
  /\ attemptNo = 1
  /\ solveResult = FALSE
  /\ scoutActions = <<>>
  /\ scoutExecuted = 0
  /\ stepIndex = 1
  /\ stepResults = <<>>
  /\ ActIdle

SolveNext == SolveStart \/ SkillIteration \/ ScoutBatch \/ ScoutAction \/ Combined

SolveSpec == SolveInit /\ [][SolveNext]_vars

\* runAgent of the step-indexed runner: the result of runStep is pushed and
\* the loop goes on to the next index, whether the step succeeded or not
StepIndexedRunAgent ==
  /\ solvePc = "returned"
  /\ \E s \in {[SolveCur EXCEPT !.stepResults =
                                   Append(@, [step |-> stepIndex, success |-> solveResult])]} :
       IF stepIndex < MaxRunSteps
       THEN SolveCommit([s EXCEPT !.stepIndex = @ + 1, !.solvePc = "start",
                                  !.attemptNo = 1, !.solveClock = 0])
       ELSE SolveCommit([s EXCEPT !.solvePc = "finished"])

\* pages whose code shows once the popups are gone
RunPages ==
  { DomPageOf(<<>>, n, <<CodeAB3XK9>>, FALSE, <<>>, FALSE, <<>>, CodeAB3XK9) :
      n \in 1..MaxPopups }

\* runAgent is entered on such a page, after the start phase
RunInit ==
  /\ world = BanWorld
  /\ page = StepOne
  /\ RunStart
  /\ DiffIdle
  /\ solvePc = "start"
  /\ domPage \in RunPages
  /\ domSnap = captureDOMSnapshot(NoDomPage)
  /\ skillIndex = 1
  /\ skillLogs = <<>>
  /\ passResults = <<>>
  /\ submittedCodes = <<>>
  /\ solveClock = 0
  /\ attemptNo = 1
  /\ solveResult = FALSE
  /\ scoutActions = <<>>
  /\ scoutExecuted = 0
  /\ stepIndex = 1
  /\ stepResults = <<>>
  /\ ActIdle

RunNext == SolveNext \/ StepIndexedRunAgent

RunSpec == RunInit /\ [][RunNext]_vars

\* the step-indexed runner is not running
SolveIdle ==
  /\ solvePc = "idle"
  /\ domPage = NoDomPage
  /\ domSnap = captureDOMSnapshot(NoDomPage)
  /\ skillIndex = 1
  /\ skillLogs = <<>>
  /\ passResults = <<>>
  /\ submittedCodes = <<>>
  /\ solveClock = 0
  /\ attemptNo = 1
  /\ solveResult = FALSE
  /\ scoutActions = <<>>
  /\ scoutExecuted = 0
  /\ stepIndex = 1
  /\ stepResults = <<>>

Init ==
  /\ world \in Worlds
  /\ page \in world.pages
  /\ RunStart
  /\ DiffIdle
  /\ SolveIdle
  /\ ActIdle

Next ==
  \/ LoopHead
  \/ PreScan
  \/ Tick
  \/ OracleFails
  \/ OracleReplies
  \/ DispatchNone
  \/ DispatchStatus
  \/ ExecJs
  \/ ExecPointer
  \/ ExecScreenshot
  \/ ExecAdvisor
  \/ Check404
  \/ HardSkipForce
  \/ HardSkipNav
  \/ HardSkipReset
  \/ HardSkip404

Spec == Init /\ [][Next]_vars

\* The runs in which the Oracle takes time to answer, with the scheduling the
\* runtime gives: an awaited operation eventually settles (weak fairness of
\* the loop's next step), and wall-clock time passes during Oracle calls
\* however often the loop comes back to one (strong fairness of Tick).
LiveInit == Init /\ world.slow
LiveSpec == LiveInit /\ [][Next]_vars /\ WF_vars(Next) /\ SF_vars(Tick)

(***************************************************************************)
(* The diff engine on its own                                              *)
(***************************************************************************)
\* elements a snapshot can hold besides ButtonOk and ButtonOkDisabled: a
\* button whose name is a code, the same hidden, the same hidden by its style
\* as well, a second OK button, an input that shows a code, the same hidden
ButtonCode == [ButtonOk EXCEPT !.name = "AB3XK9"]
ButtonCodeHidden == [ButtonCode EXCEPT !.visible = FALSE]
ButtonCodeUnstyled == [ButtonCodeHidden EXCEPT !.visibility = "hidden"]
ButtonOkTwo == [ButtonOk EXCEPT !.selector = "#ok2"]
InputFilled == [InputCode EXCEPT !.name = "AB3XK9"]
InputFilledHidden == [InputFilled EXCEPT !.visible = FALSE]

\* the OK button raised above the page and made deaf to the pointer
ButtonOkRaised == [ButtonOk EXCEPT !.zIndex = 1000, !.pointerEvents = "none"]

DiffElements ==
  { ButtonOk, ButtonOkDisabled, ButtonCode, ButtonCodeHidden, ButtonCodeUnstyled,
    ButtonOkTwo, InputFilled, InputFilledHidden, ButtonOkRaised }

\* the element lists takeEnrichedSnapshot can return: kept elements only, in
\* the order of its sort; elements may share a key
SnapshotLists ==
  { l \in UNION { [1..n -> DiffElements] : n \in 0..MaxElements } :
      /\ \A i \in 1..Len(l) : IsKept(l[i])
      /\ IsSnapshotOrder(l) }

SnapshotsAt(urls) ==
  { [stepOf |-> NoStep, stepBare |-> NoStep, url |-> u, completionText |-> FALSE,
     elements |-> l] : u \in urls, l \in SnapshotLists }

\* var before = await takeEnrichedSnapshot(page); ... var after = ...
DiffInit ==
  /\ world = BanWorld
  /\ page = StepOne
  /\ RunStart
  /\ diffPc = "snapshots"
  /\ diffBefore \in SnapshotsAt({"/"})
  /\ diffAfter \in SnapshotsAt({"/", "/404"})
  /\ diffChanges = EmptyDiff
  /\ diffNoOp = TRUE
  /\ SolveIdle
  /\ ActIdle

\* var changes = diffSnapshots(before, after)
TakeDiff ==
  /\ diffPc = "snapshots"
  /\ diffChanges' = diffSnapshots(diffBefore, diffAfter)
  /\ diffPc' = "diffed"
  /\ UNCHANGED << runVars, skillVars, actVars, diffBefore, diffAfter, diffNoOp >>

\* if (isNoOpChange(result.changes)) ... else ...
ClassifyNoOp ==
  /\ diffPc = "diffed"
  /\ diffNoOp' = isNoOpChange(diffChanges)
  /\ diffPc' = "classified"
  /\ UNCHANGED << runVars, skillVars, actVars, diffBefore, diffAfter, diffChanges >>

DiffNext == TakeDiff \/ ClassifyNoOp

DiffSpec == DiffInit /\ [][DiffNext]_vars

(***************************************************************************)
(* The run of one skill: its page actions, its deadline tests and its      *)
(* trap tests                                                              *)
(***************************************************************************)
ActCur ==
  [ actPc |-> actPc, actSkill |-> actSkill, actPage |-> actPage, actIndex |-> actIndex,
    actSweep |-> actSweep, actClock |-> actClock, trapDetected |-> trapDetected,
    pageActions |-> pageActions, actResult |-> actResult ]

ActCommit(state) ==
  \E s \in {state} :
    /\ actPc' = s.actPc
    /\ actSkill' = s.actSkill
    /\ actPage' = s.actPage
    /\ actIndex' = s.actIndex
    /\ actSweep' = s.actSweep
    /\ actClock' = s.actClock
    /\ trapDetected' = s.trapDetected
    /\ pageActions' = s.pageActions
    /\ actResult' = s.actResult
    /\ UNCHANGED << runVars, diffVars, skillVars >>

\* what the page does on an action: the time the action takes, whether a trap
\* indicator is on the page afterwards, whether a code is
ActEnvs ==
  { [ms |-> ms, trap |-> tr, code |-> c] :
      ms \in {0, SolveTickMs}, tr \in BOOLEAN, c \in BOOLEAN }

\* withinDeadline(deadline) during a skill's run
ActWithinDeadline(s) == s.actClock < STEP_DEADLINE_MS

\* a page action starts: a click, a selection, a scroll or the click on the
\* submit button; it is recorded with what the run knew when it started it
PageActed(s, kind, env) ==
  [s EXCEPT !.pageActions =
               Append(@, [kind |-> kind, late |-> ~ActWithinDeadline(s),
                          afterTrap |-> s.trapDetected]),
            !.actClock = Min(@ + env.ms, STEP_DEADLINE_MS),
            !.actPage.trap = env.trap]

\* detectTrap(page): the text of a trap indicator is on the page
detectTrap(s) == s.actPage.trap

\* a call of detectTrap is made: what it returns is known to the run
TrapChecked(s) == [s EXCEPT !.trapDetected = @ \/ detectTrap(s)]

\* the skill's run returns its result
ActReturned(s, code) == [s EXCEPT !.actPc = "returned", !.actResult = code]

\* executeAction in a skill: the action, then checkForCode and detectTrap
ExecutedAction(s, kind, env) == TrapChecked(PageActed(s, kind, env))

\* the tail of CheckboxSkill and DropdownSkill: selectSubmitButton, and a
\* click on the button it found
FinalSubmit(s, env) ==
  IF s.actPage.submitEid
  THEN ActReturned(ExecutedAction(s, "submit", env), env.code)
  ELSE ActReturned(s, FALSE)

\* CheckboxSkill.run: every visible checkbox is clicked, then the submit button
CheckboxSkill ==
  /\ actSkill = "checkbox" /\ actPc \in {"targets", "submit"}
  /\ \E env \in ActEnvs, visible \in BOOLEAN :
       ActCommit(
         IF actPc = "targets" /\ actIndex <= actPage.targets /\ ActWithinDeadline(ActCur)
         THEN IF ~visible THEN [ActCur EXCEPT !.actIndex = @ + 1]
              ELSE IF env.code THEN ActReturned(PageActed(ActCur, "click", env), TRUE)
              ELSE IF env.trap
              THEN [TrapChecked(PageActed(ActCur, "click", env)) EXCEPT !.actPc = "submit"]
              ELSE [TrapChecked(PageActed(ActCur, "click", env)) EXCEPT !.actIndex = @ + 1]
         ELSE FinalSubmit(ActCur, env))

\* DropdownSkill.run: the last option of every select, then the submit button
DropdownSkill ==
  /\ actSkill = "dropdown" /\ actPc \in {"targets", "submit"}
  /\ \E env \in ActEnvs :
       ActCommit(
         IF actPc = "targets" /\ actIndex <= actPage.targets /\ ActWithinDeadline(ActCur)
         THEN IF env.code THEN ActReturned(PageActed(ActCur, "select", env), TRUE)
              ELSE IF env.trap
              THEN [TrapChecked(PageActed(ActCur, "select", env)) EXCEPT !.actPc = "submit"]
              ELSE [TrapChecked(PageActed(ActCur, "select", env)) EXCEPT !.actIndex = @ + 1]
         ELSE FinalSubmit(ActCur, env))

\* DialogScrollSkill.run: SCROLL_SWEEPS scrolls of every scrollable of the dialog
DialogScrollSkill ==
  /\ actSkill = "dialog_scroll" /\ actPc = "scrolls"
  /\ \E env \in ActEnvs :
       ActCommit(
         IF actIndex > actPage.scrollables THEN ActReturned(ActCur, FALSE)
         ELSE IF actSweep < SCROLL_SWEEPS /\ ActWithinDeadline(ActCur)
         THEN IF env.code THEN ActReturned(ExecutedAction(ActCur, "scroll", env), TRUE)
              ELSE [ExecutedAction(ActCur, "scroll", env) EXCEPT !.actSweep = @ + 1]
         ELSE [ActCur EXCEPT !.actIndex = @ + 1, !.actSweep = 0])

\* DialogRadioSkill.run: the dialog's scrollables are scrolled, then each radio
\* is clicked and, after it, the submit button
DialogRadioSkill ==
  /\ actSkill = "dialog_radio" /\ actPc \in {"scrolls", "targets", "submit"}
  /\ \E env \in ActEnvs :
       ActCommit(
         IF actPc = "scrolls"
         THEN IF actIndex <= actPage.scrollables /\ ActWithinDeadline(ActCur)
              THEN [ExecutedAction(ActCur, "scroll", env) EXCEPT !.actIndex = @ + 1]
              ELSE [ActCur EXCEPT !.actPc = "targets", !.actIndex = 1]
         ELSE IF actPc = "targets"
         THEN IF actIndex <= Min(actPage.targets, RADIO_BRUTEFORCE_LIMIT)
                 /\ ActWithinDeadline(ActCur)
              THEN Only({ IF env.code THEN ActReturned(s, TRUE)
                          ELSE IF s.actPage.trap THEN ActReturned(s, FALSE)
                          ELSE IF s.actPage.submitEid THEN [s EXCEPT !.actPc = "submit"]
                          ELSE [s EXCEPT !.actIndex = @ + 1] :
                            s \in {ExecutedAction(ActCur, "click", env)} })
              ELSE ActReturned(ActCur, FALSE)
         ELSE Only({ IF env.code THEN ActReturned(s, TRUE)
                     ELSE IF s.actPage.trap THEN ActReturned(s, FALSE)
                     ELSE [s EXCEPT !.actPc = "targets", !.actIndex = @ + 1] :
                       s \in {ExecutedAction(ActCur, "submit", env)} }))

\* the pages the skills are run on: a skill is run when it matches the
\* snapshot, so the controls it works on are there
ActPages(skill) ==
  { [targets |-> n, scrollables |-> m, submitEid |-> b, trap |-> FALSE] :
      n \in (IF skill = "dialog_scroll" THEN {0} ELSE 1..MaxTargets),
      m \in (CASE skill = "dialog_scroll" -> 1..MaxTargets
               [] skill = "dialog_radio" -> 0..1
               [] OTHER -> {0}),
      b \in BOOLEAN }

\* runSkill calls skill.run(page, snap, deadline) within the deadline
ActInit ==
  /\ world = BanWorld
  /\ page = StepOne
  /\ RunStart
  /\ DiffIdle
  /\ SolveIdle
  /\ actSkill \in {"dialog_radio", "dialog_scroll", "checkbox", "dropdown"}
  /\ actPage \in ActPages(actSkill)
  /\ actPc = (IF actSkill \in {"dialog_radio", "dialog_scroll"} THEN "scrolls" ELSE "targets")
  /\ actIndex = 1
  /\ actSweep = 0
  /\ actClock \in {0, SolveTickMs}
  /\ trapDetected = FALSE
  /\ pageActions = <<>>
  /\ actResult = FALSE

ActNext == DialogRadioSkill \/ DialogScrollSkill \/ CheckboxSkill \/ DropdownSkill

ActSpec == ActInit /\ [][ActNext]_vars

TypeOK ==
  /\ pc \in {"head", "prescan", "call", "dispatch", "check404", "hs_force", "hs_nav",
             "hs_reset", "hs_404", "done", "raised"}
  /\ page \in Pages
  /\ toolCalls \in Nat

(***************************************************************************)
(* Properties                                                              *)
(***************************************************************************)
\* the latest step wrote this line with logAgent
LoggedLine(line) == \E i \in 1..Len(log) : log[i] = line
LoggedLineNext(line) == \E i \in 1..Len(log') : log'[i] = line

\* C1: across a run the completed-steps estimate never decreases from one
\* state to the next, whatever the detector returns and across 404 recovery,
\* hard skips and forced session resets.
C1_CompletedStepsNeverDecrease == [][completedSteps' >= completedSteps]_vars

\* a restart cleared the session record below the estimate, which is kept
C1_Witness ==
  /\ pc = "head"
  /\ sessionCompletedSteps = 0
  /\ completedSteps > 0
  /\ lastMessage \in {"recovered from 404", "forced reset applied"}

\* C2: once a normalized script signature is banned, it stays banned, and every
\* later proposal whose normalized signature equals it is rejected before
\* execution: no tool call is counted, the executor does not run, the page and
\* the stored snapshot are untouched, and the loop goes to its next iteration.
C2_BannedProposalRejected ==
  [][ /\ bannedJsPatterns \subseteq bannedJsPatterns'
      /\ (/\ pc = "dispatch"
          /\ toolCall.tool = "js"
          /\ Trim(CollapseWs(toolCall.code)) \in bannedJsPatterns)
         => /\ pc' = "head"
            /\ toolCalls' = toolCalls
            /\ stepToolCalls' = stepToolCalls
            /\ page' = page
            /\ snapshot' = snapshot
            /\ noOpWindow' = noOpWindow
            /\ lastError' = "none" ]_vars

\* a proposal written with other whitespace than the banned one was rejected
C2_Witness ==
  /\ pc = "head"
  /\ LoggedLine("blocked banned pattern")
  /\ lastMessage = "pattern banned"
  /\ <<"a", " ", "b">> \in bannedJsPatterns


\* the no-op window once the dispatched page action is entered in it
C3_Window ==
  PushNoOp(noOpWindow,
           IF toolCall.tool = "js"
           THEN [tool |-> "js", jsPattern |-> Trim(CollapseWs(toolCall.code))]
           ELSE [tool |-> toolCall.tool, jsPattern |-> NoPattern])

C3_BreakerFired == pc = "dispatch" /\ LoggedLineNext("circuit breaker")

\* C3 as stated: whenever the last 3 executed page actions (script, drag or
\* hover, in any mix) were no-ops, the signature of the latest of them is
\* banned immediately afterwards, a directive is queued and the window is
\* empty; here for a breaker whose screenshot succeeds.
C3_LatestSignatureBanned ==
  [][ (C3_BreakerFired /\ lastError' = "none") =>
        /\ C3_Window[Len(C3_Window)].jsPattern \in bannedJsPatterns'
        /\ "no-op" \in pendingPriorityDirective'
        /\ noOpWindow' = <<>> ]_vars

\* C4 as stated: the run never raises to its caller, whatever fails inside a
\* step; here for a failed screenshot or advisor call.
C4_RunNeverRaises == ~(pc = "raised" /\ lastError \in {"screenshotTool", "advisorTool"})

\* C5: every run terminates: the loop exits once the wall-clock budget or the
\* tool-call budget is spent, whatever the Oracle replies.
C5_RunTerminates == <>(pc \in {"done", "raised"})

\* the loop left on the time budget with tool calls to spare
C5_Witness ==
  /\ pc = "done"
  /\ LoggedLine("time budget")
  /\ clock > GlobalTimeBudgetS
  /\ toolCalls < maxToolCalls
  /\ sessionCompletedSteps < maxSteps

\* C6 as stated: the nav click runs only after the forced advance failed to
\* raise the step, and hard skip resets the session only after both have
\* failed in two attempts on the same step.
C6_ResetAfterTwoFailedAttempts ==
  /\ pc = "hs_nav" => LoggedLine("tier1 failed")
  /\ pc = "hs_reset" =>
       /\ failedHardSkips.step = cycleStep
       /\ failedHardSkips.count >= 2

\* C7 as stated: an executed action that returns and leaves the page on a 404
\* page is followed at once by the not-found check, and the no-op breaker has
\* not acted on its outcome.
C7_RecoveryPreempts ==
  [][ (~isNotFoundPage(page) /\ isNotFoundPage(page') /\ lastError' = "none") =>
        /\ pc' \in {"check404", "hs_404"}
        /\ ~LoggedLineNext("circuit breaker") ]_vars

\* C8: each failed Oracle call adds one to the consecutive-failure counter and
\* each reply clears it; the run is aborted for Oracle failures exactly when
\* the counter reaches 3, and nothing else changes the counter.
C8_FailureCounter ==
  [][ /\ (pc = "call" /\ LoggedLineNext("model call failed")) =>
           /\ consecutiveModelFailures' = consecutiveModelFailures + 1
           /\ pc' = IF consecutiveModelFailures' >= 3 THEN "done" ELSE "head"
      /\ (pc = "call" /\ LoggedLineNext("model selected tool")) =>
           consecutiveModelFailures' = 0
      /\ LoggedLineNext("repeated model failures") =>
           (consecutiveModelFailures = 2 /\ consecutiveModelFailures' = 3)
      /\ pc # "call" => consecutiveModelFailures' = consecutiveModelFailures ]_vars

\* the run was aborted on the third failure in a row
C8_Witness ==
  /\ pc = "done"
  /\ LoggedLine("repeated model failures")
  /\ consecutiveModelFailures = 3
  /\ toolCalls < maxToolCalls

\* a reply that holds no status and no complete tool call
C9_Unparseable(r) ==
  /\ r.status \in {Absent, ""}
  /\ \/ /\ r.tool \in {Absent, ""}
        /\ r.fallbackDrag = Absent /\ r.fallbackHover = Absent
        /\ r.fallbackCode = AbsentCode
     \/ r.tool \notin {Absent, "", "js", "JS", "screenshot", "drag", "hover", "advisor"}
     \/ /\ r.tool \in {"js", "JS"}
        /\ \/ r.code # AbsentCode /\ \A i \in 1..Len(r.code) : r.code[i] \in Whitespace
           \/ r.code = AbsentCode /\ r.fallbackCode = AbsentCode
     \/ /\ r.tool = "drag"
        /\ r.source = Absent \/ r.target = Absent
        /\ r.fallbackDrag = Absent
     \/ /\ r.tool = "hover"
        /\ r.selector = Absent /\ r.target = Absent /\ r.fallbackHover = Absent
     \/ /\ r.tool = "advisor"
        /\ r.prompt = Absent /\ r.code = AbsentCode

\* C9: a reply that cannot be parsed into a tool call becomes the 'none'
\* variant; the loop then runs no tool, leaves the tool-call and progress
\* counters, the page and the snapshot as they are, appends the corrective
\* re-prompt, goes to its next iteration, and does not throw.
C9_UnparseableReply ==
  [][ (pc = "dispatch" /\ C9_Unparseable(modelResponse)) =>
        /\ toolCall.tool = "none"
        /\ pc' = "head"
        /\ lastMessage' = "tool parse failed"
        /\ lastError' = "none"
        /\ UNCHANGED << toolCalls, stepToolCalls, sessionCompletedSteps, completedSteps,
                        lastVisibleStep, consecutiveModelFailures, page, snapshot,
                        noOpWindow, bannedJsPatterns >> ]_vars

\* the re-prompt was appended after an unparseable reply
C9_Witness ==
  /\ pc = "head"
  /\ lastMessage = "tool parse failed"
  /\ lastError = "none"

\* C10 as stated: no Tool Executor throws to the control loop.
C10_ExecutorsNeverThrow == lastError \notin {"jsTool", "dragTool", "hoverTool"}

\* C11 as stated: the step observation, the stuck-step escalation and the
\* completion check that follow an executed tool call are taken on a snapshot
\* captured after that call: the last executed tool is never a screenshot or
\* an advisor call, which capture none.
C11_DecisionOnFreshSnapshot ==
  [][ (pc = "check404" /\ ~isNotFoundPage(page) /\ pc' # "raised") =>
        lastMessage \notin {"screenshot", "advisor result"} ]_vars

\* C12 as stated: at every point of a run, the initial state included, the
\* completed-steps estimate lies in 0..N for the configured N.
C12_EstimateWithinBounds == completedSteps >= 0 /\ completedSteps <= maxSteps


\* C13 as stated: the step observation after an executed tool moves the
\* visible step and the completed-steps estimate only when the detected step
\* number lies in 1..N for the configured N.
C13_DetectedStepWithinRun ==
  [][ (/\ pc = "check404" /\ ~isNotFoundPage(page)
       /\ \/ lastVisibleStep' # lastVisibleStep
          \/ sessionCompletedSteps' # sessionCompletedSteps
          \/ completedSteps' # completedSteps)
      => (detectVisibleStep(snapshot) >= 1 /\ detectVisibleStep(snapshot) <= maxSteps) ]_vars


\* the window w2 is the window w with the entry e entered last, its oldest
\* entries dropped beyond NoOpWindowSize
C14_Entered(w, w2, e) ==
  /\ Len(w2) = Min(NoOpWindowSize, Len(w) + 1)
  /\ w2[Len(w2)] = e
  /\ \A i \in 1..(Len(w2) - 1) : w2[i] = w[Len(w) - (Len(w2) - 1) + i]

\* a page action the Oracle asked for is executed and returns in this step
C14_PageActionReturns ==
  /\ pc = "dispatch"
  /\ toolCall.tool \in {"js", "drag", "hover"}
  /\ toolCall.tool = "js" => ~IsBanned(toolCall.code, bannedJsPatterns)
  /\ lastError' \notin {"jsTool", "dragTool", "hoverTool"}

\* the record of the page action under dispatch
C14_Outcome ==
  IF toolCall.tool = "js"
  THEN [tool |-> "js", jsPattern |-> Trim(CollapseWs(toolCall.code))]
  ELSE [tool |-> toolCall.tool, jsPattern |-> NoPattern]

\* C14 as stated: the no-op window never holds more than 3 entries, and its
\* entries are outcomes of the most recent executed page actions in execution
\* order: a step that executes a page action enters that action's outcome last
\* (dropping the oldest beyond 3) or empties the window, and any other step
\* keeps the window or empties it.
C14_WindowOfRecentOutcomes ==
  /\ [](Len(noOpWindow) <= NoOpWindowSize)
  /\ [][ IF C14_PageActionReturns
         THEN noOpWindow' = <<>> \/ C14_Entered(noOpWindow, noOpWindow', C14_Outcome)
         ELSE noOpWindow' = <<>> \/ noOpWindow' = noOpWindow ]_vars

\* two page actions of different tools without effect are in the window, in
\* the order of their execution
C14_Witness ==
  /\ Len(noOpWindow) = 2
  /\ noOpWindow[1].tool = "drag"
  /\ noOpWindow[2].tool = "js"


\* the three lists of the diff under comparison are empty
C15_ListsEmpty ==
  /\ Len(diffChanges.addedElements) = 0
  /\ Len(diffChanges.removedElements) = 0
  /\ Len(diffChanges.modifiedElements) = 0

\* C15 as stated: the loop's no-op verdict on a diff is true exactly when the
\* diff's added, removed and modified lists are all empty; being a function of
\* the three lists it depends neither on the text summary nor on urlChanged.
C15_NoOpFromLists == diffPc = "classified" => (diffNoOp <=> C15_ListsEmpty)

\* a diff whose url changed and whose summary reports it was classified a no-op
C15_Witness ==
  /\ diffPc = "classified"
  /\ diffNoOp
  /\ diffChanges.urlChanged
  /\ diffChanges.summary # NoChangeSummary

\* C17 as stated: the diff of a snapshot with itself has empty added, removed
\* and modified lists and urlChanged = false.
C17_DiffOfSelfIsEmpty ==
  (diffPc # "snapshots" /\ diffBefore = diffAfter)
    => /\ diffChanges.addedElements = <<>>
       /\ diffChanges.removedElements = <<>>
       /\ diffChanges.modifiedElements = <<>>
       /\ diffChanges.urlChanged = FALSE

\* a snapshot with two elements that share a key was compared with itself
C17_Witness ==
  /\ diffPc = "diffed"
  /\ diffBefore = diffAfter
  /\ Len(diffBefore.elements) = 2
  /\ elementKey(diffBefore.elements[1]) = elementKey(diffBefore.elements[2])
  /\ diffBefore.elements[1] # diffBefore.elements[2]

\* C18 as stated: no (role, selector) key is reported as added and as removed
\* by the same diff.
C18_AddedRemovedDisjoint ==
  diffPc # "snapshots"
    => \A i \in 1..Len(diffChanges.addedElements),
          j \in 1..Len(diffChanges.removedElements) :
         diffChanges.addedElements[i].key # diffChanges.removedElements[j].key

\* a diff reports an element as added and another as removed, and the two
\* lines name the same role and the same name
C18_Witness ==
  /\ diffPc = "diffed"
  /\ \E i \in 1..Len(diffChanges.addedElements),
        j \in 1..Len(diffChanges.removedElements) :
       diffChanges.addedElements[i].line[2] = diffChanges.removedElements[j].line[2]

\* the key k is in both snapshots under comparison, and the element it stands
\* for differs in its visible flag only, true before and false after
C19_OnlyVisibleDiffers(k) ==
  /\ k \in SeqRange(Keys(diffBefore)) \cap SeqRange(Keys(diffAfter))
  /\ ElementAt(diffBefore, k).visible = TRUE
  /\ ElementAt(diffAfter, k) = [ElementAt(diffBefore, k) EXCEPT !.visible = FALSE]

\* no element other than the one of key k changes its visible flag
C19_NoOtherVisibilityChange(k) ==
  \A o \in (SeqRange(Keys(diffBefore)) \cap SeqRange(Keys(diffAfter))) \ {k} :
    ElementAt(diffBefore, o).visible = ElementAt(diffAfter, o).visible

C19_ModifiedLinesOf(k) ==
  { i \in 1..Len(diffChanges.modifiedElements) : diffChanges.modifiedElements[i].key = k }

\* C19 as stated: when an element present in both snapshots differs in its
\* visible flag only (true to false), the diff holds exactly one modified line
\* for that element, and visibilityChanges, no other element having changed
\* its visible flag, is exactly the one entry {selector, "true", "false"}.
C19_OneVisibilityChange ==
  diffPc # "snapshots"
    => \A k \in SeqRange(Keys(diffBefore)) :
         C19_OnlyVisibleDiffers(k)
           => /\ Cardinality(C19_ModifiedLinesOf(k)) = 1
              /\ C19_NoOtherVisibilityChange(k)
                   => diffChanges.visibilityChanges =
                        << [selector |-> k[2], from |-> "true", to |-> "false"] >>

\* the button of a code went from visible to hidden between the snapshots
\* while another element was added, and the diff was taken
C19_Witness ==
  /\ diffPc = "diffed"
  /\ C19_OnlyVisibleDiffers(<<"button", "#ok">>)
  /\ C19_NoOtherVisibilityChange(<<"button", "#ok">>)
  /\ Len(diffChanges.addedElements) = 1


\* C16 as stated: when the step observed after an executed action is above the
\* visible step, the completed-steps estimate becomes exactly the larger of
\* its value and the observed step minus one.
C16_EstimateAfterAdvance ==
  [][ (/\ pc = "check404" /\ ~isNotFoundPage(page)
       /\ detectVisibleStep(snapshot) > lastVisibleStep)
      => /\ sessionCompletedSteps' =
              Max(sessionCompletedSteps, detectVisibleStep(snapshot) - 1)
         /\ completedSteps' = Max(completedSteps, detectVisibleStep(snapshot) - 1) ]_vars

\* C20's case: in the current pass direct code extraction found nothing,
\* overlay dismissal closed a popup and found no code, and the reveal skill
\* found a code
C20_Case ==
  /\ Len(passResults) >= 3
  /\ passResults[1].skillId = "direct_code" /\ ~BooleanOfCode(passResults[1].code)
  /\ passResults[2].skillId = "overlay_cleaner" /\ passResults[2].matched
  /\ passResults[2].closed > 0 /\ ~BooleanOfCode(passResults[2].code)
  /\ passResults[3].skillId = "reveal_button" /\ BooleanOfCode(passResults[3].code)

\* C20: in a skill pass where direct code extraction finds nothing, overlay
\* dismissal removes a popup without revealing a code and the reveal skill
\* then finds code C, the pass yields C (C is what the pass submits for the
\* reveal skill) and the skill log holds an entry for overlay_cleaner with
\* success false followed by one for reveal_button with success true and
\* codeFound C.
C20_RevealAfterFailedDismissal ==
  C20_Case =>
    /\ \E n \in 1..Len(submittedCodes) :
         submittedCodes[n] = [code |-> passResults[3].code, by |-> "reveal_button",
                              attempt |-> passResults[3].attempt]
    /\ \E i \in 1..Len(skillLogs), j \in 1..Len(skillLogs) :
         /\ i < j
         /\ skillLogs[i].attempt = passResults[3].attempt
         /\ skillLogs[i].skillId = "overlay_cleaner"
         /\ skillLogs[i].success = FALSE
         /\ skillLogs[j].attempt = passResults[3].attempt
         /\ skillLogs[j].skillId = "reveal_button"
         /\ skillLogs[j].success = TRUE
         /\ skillLogs[j].codeFound = passResults[3].code

C20_Witness ==
  /\ C20_Case
  /\ passResults[3].code = CodeQZ9K2M
  /\ ~passResults[1].matched
  /\ solveResult

\* what direct code extraction is to return on page p: the top-scoring
\* candidate if its score clears the threshold, no code otherwise
C21_TopAboveThreshold(p) ==
  LET codes == extractCodesFromDOM(p)
  IN  IF Len(codes) > 0 /\ codes[1].score >= DOM_SCORE_THRESHOLD THEN codes[1].code ELSE Null

\* C21: direct code extraction returns the top-scoring candidate token only
\* when its score clears the fixed threshold and returns no code otherwise
\* (AB3XK9 for SUBMIT, AB3XK9, aaaaaa; no code for SUBMIT, aaaaaa).
C21_DirectCodeClearsThreshold ==
  [][ (solvePc = "loop" /\ skillIndex = 1 /\ Len(passResults') = 1)
      => passResults'[1].code = C21_TopAboveThreshold(domPage) ]_vars

\* C22: the total tool-call count never exceeds the configured ceiling
\* (maxToolCalls) at any point of a run, the calls of the no-op circuit
\* breaker, hard skip, 404 recovery and session reset included.
C22_ToolCallsWithinCeiling == toolCalls <= maxToolCalls

\* C23: the actions several concurrent Oracle queries propose over one
\* snapshot are merged with duplicates removed, and exactly one of the merged
\* actions is executed against the page before the page is observed again:
\* the queue holds no action twice, and no second action of it is executed
\* on the snapshot the queries were put over.
C23_OneMergedActionPerSnapshot ==
  /\ \A i \in 1..Len(scoutActions), j \in 1..Len(scoutActions) :
       ActionKey(scoutActions[i]) = ActionKey(scoutActions[j]) => i = j
  /\ scoutExecuted <= 1

\* C24: the completed-steps count that is the loop's guard and is reported
\* to the Oracle in every state message (sessionCompletedSteps) never
\* decreases in a run, 404 recovery and forced session resets included.
C24_SessionStepsNeverDecrease ==
  [][sessionCompletedSteps' >= sessionCompletedSteps]_vars

\* the completed-steps estimate the completion check reads in this step: the
\* loop's estimate, moved by the step's own observation if that advanced
C25_EstimateAtCheck ==
  IF lastVisibleStep' > lastVisibleStep
  THEN setCompletedStepsMonotonic(sessionCompletedSteps, lastVisibleStep' - 1, maxSteps)
  ELSE sessionCompletedSteps

\* C25: the run is declared completed only in a state where all of these
\* hold together: the current step is at or above the watermark (25), the
\* page shows explicit completion text, the completed-steps estimate is at
\* least 25, and the current snapshot holds no visible and enabled form
\* control.
C25_CompletionOnlyWhenAllHold ==
  [][ LoggedLineNext("completion detected")
      => /\ currentStep' >= CompletionWatermark
         /\ snapshot'.completionText
         /\ C25_EstimateAtCheck >= CompletionWatermark
         /\ ~hasActiveFormControls(snapshot') ]_vars

C25_Witness ==
  /\ LoggedLine("completion detected")
  /\ pc = "done"
  /\ snapshot.completionText
  /\ sessionCompletedSteps = maxSteps

\* C26: the run is declared completed only if the strict step detector
\* ("step N of 30" / "N/30") reports the maximum step on the current
\* snapshot; a maximum step that only the loose detector reports is not
\* enough.
C26_CompletionNeedsStrictStep ==
  [][ LoggedLineNext("completion detected")
      => detectVisibleStepFromPageText(snapshot') = DetectorMaxStep ]_vars

\* C27: when a strictly greater step is observed, every per-step counter of
\* the progress state (per-step tool-call count, no-op window, stuck-cycle
\* count, hard-skip fail count, step start time) is reset to its initial
\* value in that same transition.
C27_AdvanceResetsStepCounters ==
  [][ (/\ pc = "check404" /\ ~isNotFoundPage(page)
       /\ lastVisibleStep' > lastVisibleStep)
      => /\ stepToolCalls' = 0
         /\ noOpWindow' = <<>>
         /\ stuckCyclesOnStep' = 0
         /\ hardSkipFailCount' = 0
         /\ stepStartTimeMs' = clock' ]_vars

\* the loop is about to observe the page after a tool call, the step has
\* not advanced, and the step holds the Tier-B threshold of calls with Tier B
\* not yet fired for it
C28_TierBDue ==
  /\ pc = "check404" /\ ~isNotFoundPage(page)
  /\ ~(detectVisibleStep(snapshot) # NoStep /\ detectVisibleStep(snapshot) > lastVisibleStep)
  /\ stepToolCalls >= TierBThreshold
  /\ ~stuckEscalationSent

\* C28: when a step has accumulated the Tier-B threshold of tool calls (8)
\* with no step progress and Tier B has not yet fired for that step, the loop
\* captures a screenshot and injects a "try a different approach" directive
\* while leaving the per-step state (per-step tool-call count, no-op window,
\* step start time) unreset.
C28_TierBFiresAtThreshold ==
  [][ C28_TierBDue
      => /\ LoggedLineNext("stuck escalation")
         /\ stuckEscalationSent'
         /\ stepToolCalls' = stepToolCalls + 1
         /\ noOpWindow' = noOpWindow
         /\ stepStartTimeMs' = stepStartTimeMs ]_vars

\* the step the escalation works on: observedStep ?? currentStep
C29_CycleStep ==
  IF detectVisibleStep(snapshot) # NoStep THEN detectVisibleStep(snapshot) ELSE currentStep

\* the stuck rounds this step has been through already
C29_EarlierCycles ==
  (IF lastHardSkipStep = C29_CycleStep THEN hardSkipFailCount ELSE 0)
  + (IF stuckCyclesStep = C29_CycleStep THEN stuckCyclesOnStep ELSE 0)

\* the run never left its first step, the step has been through a stuck round,
\* it is at a stuck threshold again, and twelve tool calls were made since the
\* start script
C29_TierCDue ==
  /\ pc = "check404" /\ ~isNotFoundPage(page)
  /\ ~(detectVisibleStep(snapshot) # NoStep /\ detectVisibleStep(snapshot) > lastVisibleStep)
  /\ completedSteps = 0
  /\ toolCalls - 1 >= TierCThreshold
  /\ stepToolCalls >= hardSkipCallThreshold
  /\ C29_EarlierCycles >= 1

\* C29: when a step reaches twelve tool calls with no step progress in at
\* least its second stuck cycle on that step, the loop runs the overlay sweep
\* that hides the high fixed elements, and it restarts the session only if the
\* page it then sees has no usable content
C29_TierCSweepsBeforeReset ==
  [][ C29_TierCDue
      => /\ LoggedLineNext("overlay sweep")
         /\ (LoggedLineNext("restarted from base URL") \/ LoggedLineNext("force resetting"))
              => ~hasContent(snapshot') ]_vars

\* the Tier C block of the loop is never entered: its round counter stays
\* clear and none of its lines is written
TierCNeverEntered ==
  /\ stuckCyclesOnStep = 0 /\ stuckCyclesStep = NoStep
  /\ ~LoggedLine("attempting recovery") /\ ~LoggedLine("overlay sweep")
  /\ ~(pc = "check404" /\ TierCFires(Cur))


\* the order of the skills as the library is specified
C30_FixedOrder ==
  << "direct_code", "overlay_cleaner", "reveal_button", "dialog_radio", "dialog_scroll",
     "click_here", "checkbox", "dropdown" >>

\* C30: within one solve attempt the n-th skill tried is the n-th of the fixed
\* order direct_code, overlay_cleaner, reveal_button, dialog_radio,
\* dialog_scroll, click_here, checkbox, dropdown, and when the loop goes on to
\* the next skill, the snapshot that skill receives is the one captured from
\* the page as the previous skill (and the submission of its code) left it
C30_SkillsInOrderOnFreshSnapshots ==
  [][ (solvePc = "loop" /\ Len(passResults') = Len(passResults) + 1)
      => /\ passResults'[Len(passResults')].skillId = C30_FixedOrder[Len(passResults')]
         /\ passResults'[Len(passResults')].attempt = attemptNo
         /\ (solvePc' = "loop" => domSnap' = captureDOMSnapshot(domPage')) ]_vars

\* all eight skills were tried in one attempt, the overlay cleaner closed a
\* popup and the reveal button and the dropdown skill matched the snapshots they
\* were given afterwards
C30_Witness ==
  /\ Len(passResults) = Len(skills)
  /\ passResults[Len(skills)].skillId = "dropdown"
  /\ passResults[2].closed > 0
  /\ passResults[3].matched
  /\ passResults[Len(skills)].matched


\* C31: the skill pass stops at the first skill that returns a code: a skill
\* is run in a pass only if no skill before it in that pass returned a code
C31_PassStopsAtFirstCode ==
  [][ (solvePc = "loop" /\ Len(passResults') = Len(passResults) + 1)
      => \A i \in 1..Len(passResults) : ~BooleanOfCode(passResults[i].code) ]_vars


\* C32: once a call of detectTrap in a skill's run has found a trap
\* indicator, the run starts no further page action: no click, no selection,
\* no scroll and no click on the submit button
C32_NoPageActionAfterTrap ==
  \A i \in 1..Len(pageActions) : ~pageActions[i].afterTrap

\* C33: a skill's run starts no page action, the final click on the submit
\* button included, when its deadline has passed
C33_NoPageActionAfterDeadline ==
  \A i \in 1..Len(pageActions) : ~pageActions[i].late


\* the dimensions in which two states of one element differ: the visible
\* flag, the accessible name, the enabled flag, the number of handlers, and
\* each tracked field of the style subset
C34_Dimensions(b, a) ==
  (IF b.visible # a.visible THEN {"visible"} ELSE {})
  \cup (IF b.name # a.name THEN {"name"} ELSE {})
  \cup (IF b.enabled # a.enabled THEN {"enabled"} ELSE {})
  \cup (IF b.handlers # a.handlers THEN {"handlers"} ELSE {})
  \cup (IF b.zIndex # a.zIndex THEN {"zIndex"} ELSE {})
  \cup (IF b.pointerEvents # a.pointerEvents THEN {"pointerEvents"} ELSE {})
  \cup (IF b.display # a.display THEN {"display"} ELSE {})
  \cup (IF b.visibility # a.visibility THEN {"visibility"} ELSE {})

\* the modified lines of the diff that report the element of key k
C34_LinesOf(k) ==
  { i \in 1..Len(diffChanges.modifiedElements) : diffChanges.modifiedElements[i].key = k }

\* C34: for an element present in both snapshots the diff holds exactly one
\* modified line for each changed dimension among visibility, accessible name,
\* enabled flag, handler count and each tracked style field, and none when
\* none of them changed
C34_OneLinePerDimension ==
  diffPc # "snapshots"
    => \A k \in SeqRange(Keys(diffBefore)) \cap SeqRange(Keys(diffAfter)) :
         Cardinality(C34_LinesOf(k))
           = Cardinality(C34_Dimensions(ElementAt(diffBefore, k), ElementAt(diffAfter, k)))

\* the same with the style subset as one dimension: a change of any of its
\* tracked fields is one change
C34_OneLinePerDimensionStyleAsOne ==
  diffPc # "snapshots"
    => \A k \in SeqRange(Keys(diffBefore)) \cap SeqRange(Keys(diffAfter)) :
         Cardinality(C34_LinesOf(k))
           = Cardinality(ChangedDimensions(ElementAt(diffBefore, k), ElementAt(diffAfter, k)))


\* the class of a six-character token
C35_Class(c) ==
  LET hasDigit == CountIn(c, Digits) > 0
      hasUpper == CountIn(c, Uppers) > 0
      hasLower == CountIn(c, Lowers) > 0
  IN  CASE hasDigit /\ hasLower -> "mixed alphanumeric"
        [] hasDigit /\ hasUpper /\ ~hasLower -> "uppercase+digit"
        [] hasUpper /\ ~hasDigit /\ ~hasLower -> "pure uppercase"
        [] hasDigit /\ ~hasUpper /\ ~hasLower -> "pure digit"
        [] hasLower /\ ~hasDigit /\ ~hasUpper -> "pure lowercase"
        [] OTHER -> "none"

\* the order of the classes, best first
C35_ClassOrder ==
  << "mixed alphanumeric", "uppercase+digit", "pure uppercase", "pure digit",
     "pure lowercase" >>

C35_Above(c, d) ==
  \E i, j \in 1..Len(C35_ClassOrder) :
    i < j /\ C35_Class(c) = C35_ClassOrder[i] /\ C35_Class(d) = C35_ClassOrder[j]

\* C35: of two surviving candidate tokens of different classes the scorer
\* gives the strictly higher score to the one whose class comes first in
\* mixed alphanumeric, uppercase+digit, pure uppercase, pure digit, pure
\* lowercase
C35_ScoreFollowsClassOrder ==
  solvePc # "start"
    => \A c, d \in SeqRange(extractCodesFromDOM(domPage)) :
         C35_Above(c.code, d.code) => c.score > d.score

\* the same for the classes in the order the scores do give
C35_ScoredOrder ==
  << "uppercase+digit", "mixed alphanumeric", "pure digit", "pure uppercase",
     "pure lowercase" >>

C35_ScoreFollowsScoredOrder ==
  solvePc # "start"
    => \A c, d \in SeqRange(extractCodesFromDOM(domPage)) :
         (\E i, j \in 1..Len(C35_ScoredOrder) :
            i < j /\ C35_Class(c.code) = C35_ScoredOrder[i]
                  /\ C35_Class(d.code) = C35_ScoredOrder[j])
           => c.score > d.score


\* an action the Oracle asked for was executed, and the step read from the
\* snapshot it left is above the visible step
C36_AdvancingAction ==
  /\ pc = "dispatch" /\ pc' = "check404"
  /\ toolCall.tool \in {"js", "drag", "hover"}
  /\ ~isNotFoundPage(page')
  /\ detectVisibleStep(snapshot') # NoStep
  /\ detectVisibleStep(snapshot') > lastVisibleStep

\* C36: an executed action after which the observed step is strictly above
\* the previous visible step is not entered in the no-op window and bans no
\* signature
C36_AdvanceIsNoNoOp ==
  [][ C36_AdvancingAction
      => /\ noOpWindow' = <<>>
         /\ ~LoggedLineNext("no-op")
         /\ bannedJsPatterns' = bannedJsPatterns ]_vars

\* the second half alone: such an action bans no signature
C36_AdvanceBansNothing ==
  [][ C36_AdvancingAction => bannedJsPatterns' = bannedJsPatterns ]_vars


\* performHardSkip is running
C37_InHardSkip == pc \in {"hs_force", "hs_nav", "hs_reset", "hs_404"}

\* C37: the hard-skip fail count never exceeds 2, and a hard skip that is the
\* second in a row on its step leaves the count at 0 when it ends, whatever
\* happened inside it, an exception of one of its tool calls included
C37_SecondHardSkipClearsCount ==
  [][ /\ hardSkipFailCount' <= 2
      /\ (C37_InHardSkip /\ hardSkipFailCount >= 2 /\ ~C37_InHardSkip')
           => hardSkipFailCount' = 0 ]_vars

\* the same for the hard skips in which no tool call raises an exception
C37_SecondHardSkipClearsCountUnlessRaised ==
  [][ /\ hardSkipFailCount' <= 2
      /\ (C37_InHardSkip /\ hardSkipFailCount >= 2 /\ ~C37_InHardSkip'
             /\ ~LoggedLineNext("HARD SKIP failed"))
           => hardSkipFailCount' = 0 ]_vars


\* an iteration of the loop starts: the step on the page is the one the step
\* timer runs for, it has run for more than the step time budget, and the
\* global time budget is not used up
C38_StepOverdue ==
  /\ pc = "head"
  /\ sessionCompletedSteps < maxSteps /\ toolCalls < maxToolCalls
  /\ clock <= GlobalTimeBudgetS
  /\ Max(1, lastVisibleStep) = stepStartVisibleStep
  /\ clock - stepStartTimeMs > StepTimeBudgetS

\* C38: when the current step has been active for more than the step time
\* budget and the global budget is not exhausted, the next iteration of the
\* loop goes into the hard skip without a pre-scan or an Oracle query, and the
\* hard skip restarts the step timer: when it ends the timer starts at the
\* present time
C38_OverdueStepIsHardSkipped ==
  [][ /\ C38_StepOverdue
        => /\ pc' = "hs_force"
           /\ LoggedLineNext("step time budget") /\ LoggedLineNext("HARD SKIP")
           /\ modelResponse' = modelResponse
      /\ (C37_InHardSkip /\ ~C37_InHardSkip') => stepStartTimeMs' = clock' ]_vars

\* a hard skip for the step time budget has started, with time left in the
\* global budget
C38_Witness ==
  /\ pc = "hs_force"
  /\ LoggedLine("step time budget")
  /\ clock - stepStartTimeMs > StepTimeBudgetS
  /\ clock <= GlobalTimeBudgetS

\* such a hard skip has ended and the timer runs from the present time
C38_TimerRestarted ==
  /\ pc = "head"
  /\ clock > StepTimeBudgetS
  /\ stepStartTimeMs = clock
  /\ hardSkipFailCount >= 1


\* C39: runStep reports success if and only if a code submission made during
\* the call increased the step number the page displays: solveStep returns
\* success in the very step of such a submission, and in no other
C39_SuccessIffSubmissionAdvanced ==
  [][ (solvePc # "returned" /\ solvePc' = "returned" /\ solveResult')
        <=> (Len(submittedCodes') > Len(submittedCodes)
               /\ domPage'.step > domPage.step) ]_vars

\* the part that holds: success is reported only with a submission that
\* raised the displayed step
C39_SuccessOnlyIfSubmissionAdvanced ==
  [][ (solvePc # "returned" /\ solvePc' = "returned" /\ solveResult')
        => (Len(submittedCodes') > Len(submittedCodes)
              /\ domPage'.step > domPage.step) ]_vars

\* the run is over, a step is in the results as failed, and the page shows a
\* step above the one the run began on
C39_FailedStepAdvanced ==
  /\ solvePc = "finished"
  /\ domPage.step > 1
  /\ \A i \in 1..Len(stepResults) : ~stepResults[i].success


\* a hard skip is counted as successful in this step: its forced advance or
\* its nav click showed a step above the base
C40_HardSkipSucceeds ==
  LoggedLineNext("tier1 succeeded") \/ LoggedLineNext("tier2 succeeded")

\* C40: a hard skip counted as successful never lowers the controller's
\* visible step: lastVisibleStep after it is strictly greater than before
C40_SuccessfulHardSkipRaisesStep ==
  [][ C40_HardSkipSucceeds => lastVisibleStep' > lastVisibleStep ]_vars

\* what the code compares: the step observed after the skip is above the
\* base, the step the strict detector read from the snapshot before it
C40_SuccessfulHardSkipPassesBase ==
  [][ C40_HardSkipSucceeds
        => lastVisibleStep' > baseStep ]_vars


====
